---- MODULE Spec2Model ----
(***************************************************************************)
(* Model of the plugin call machinery of the reality crate:                *)
(*   - Broker (plugin/messages.rs): the commit-id keyed one-slot inbox     *)
(*   - Call::bind / Bind (plugin/call.rs)                                  *)
(*   - Handler::wrap_thunk / Event::start (plugin/handler.rs, event.rs)    *)
(* and of the runir Store it registers plugins in:                         *)
(*   - Commit / Put::commit (repr/repo/commit.rs, store/put.rs)            *)
(*   - State::load / find_plugin / addresses (plugin/state.rs)             *)
(*   - Journal (repr/repo/journal.rs), Item (store/item.rs)                *)
(* and of the environment builder of the kioto crate:                      *)
(*   - Builder::build_env / load_env (engine/env/build.rs)                 *)
(*   - TemplateMap (engine/env/config/template/map.rs)                     *)
(***************************************************************************)
EXTENDS Integers, Sequences, FiniteSets, TLC

(***************************************************************************)
(* Bounds of the model                                                     *)
(***************************************************************************)
\* number of operations recorded in the history of a Broker run
MaxLog == 4
\* number of operations of the caller and the publisher in a Call run
MaxCalls == 4
\* number of messages the publisher sends while an event runs
MaxSends == 2
\* number of CancellationTokens made from the State's token
MaxTokens == 5
\* number of puts and loads made on one Store
MaxPuts == 2
\* number of Journal::log calls made on one Journal
MaxRecords == 2
\* number of entries of a directory, and of plugins of a config.toml
MaxEntries == 2
\* number of characters in a part of a plugin name
MaxChars == 2
\* the characters of an event name
MaxNameLen == 1
\* events in the list of an Operation
MaxOpEvents == 2

\* threads that call into the Broker concurrently
Threads == {"th1", "th2", "th3"}
ThreadOrder(t) == CASE t = "th1" -> 1 [] t = "th2" -> 2 [] OTHER -> 3

(***************************************************************************)
(* Values                                                                  *)
(***************************************************************************)
\* commit ids of the registered items
Commits == {1, 2}
\* message payloads a publisher sends (MessageData::Toml(t1), ::Toml(t2), ...)
Message(id) == [kind |-> "Toml", id |-> id]
\* MessageData::Empty
Empty == [kind |-> "Empty", id |-> 0]
\* absent key of the BTreeMap (Option::None of get/insert/remove)
NoEntry == [kind |-> "None", id |-> 0]
\* plugin types (type ids): P a plugin, H a handler with Target = P,
\* Q a plugin type that no item stores (NotTestPlugin of the tests)
PluginTypes == {"P", "H", "Q"}
\* Item::type_id of the item stored at a commit
ItemType(c) == IF c = 1 THEN "P" ELSE "H"

\* state of a plugin instance: rev counts the mutations made through
\* Bind::update, applied is the message a receiver override was derived from
PluginState(rev, applied) == [rev |-> rev, applied |-> applied]

VARIABLES
    data,       \* Broker.data: BTreeMap<u64, MessageData>
    pc,         \* per thread: position inside Broker::send
    pend,       \* per thread: arguments of the send in flight
    log,        \* history of completed operations
    stored,     \* per commit: the plugin instance in the Item's cell
    bnd,        \* the Bind the caller holds
    attached,   \* Event.handler is Some
    loaded,     \* the handler's Item can be found in the State
    epc,        \* position of Event::start
    hpc,        \* position of the handler's deferred task body
    ptask,      \* the task spawned by the plugin's call-fn
    ctask,      \* the task spawned by the handler's call-fn
    hres,       \* result of the handler's deferred task
    result,     \* what start() resolved with
    trace,      \* what happened during start(), in order
    hthunk,     \* target type of the handler thunk in Event.handler, "none" if None
    attach,     \* the last with_handler / set_handler call and its result
    api,        \* the entry that runs the event: "start" or "returns"
    returned,   \* the message returns() gave, NoEntry if none
    tokens,     \* the tree of CancellationTokens
    etok,       \* Event.call.cancel
    htok,       \* the handler Call's cancel, 0 before wrap_thunk made it
    polled,     \* the awaits whose Work was polled and was Pending
    lastPoll,   \* the last Work::poll: its token, task and result
    cancelAt,   \* what was running when the event's token was cancelled
    items,      \* Store.items: per commit id, the resource of the Item
    journal,    \* Journal: per commit id, the handle that was logged first
    plugins,    \* State.plugins: BTreeMap<PathBuf, Handle>
    puts,       \* the puts that were committed, in order
    jrec,       \* LogState.recorded of a Journal shared by the threads
    arcs,       \* the maps that were put behind an Arc as a snapshot
    jsnap,      \* LogState.snapshot: the Arc it points to
    jpc,        \* per thread: the Log::record in flight
    jheld,      \* per thread: the snapshot Journal::logs gave it
    jgot,       \* the commits Journal::get has returned a handle for
    jpast,      \* the values recorded has had
    jcalls,     \* number of Journal::log calls
    guard,      \* the thread that holds the write lock of the Item's cell
    refs,       \* per thread: the reference to the plugin it holds
    wrote,      \* the thread that wrote the plugin last
    disallow,   \* State.disallow_commit_conflicts
    loadRes,    \* how the last State::load ended
    cloned,     \* a clone of the State was made
    cloneItems, \* Store.items of the clone
    heads,      \* per path: the Attributes of the Handle in State.plugins
    lookup,     \* the last State::event / State::spawn and its result
    envOp,      \* the call made on the environment builder and its result
    targetRoot, \* the files under the target root
    registered, \* the events load_env has loaded into the Env
    nameOp,     \* a Name, the reference that was parsed and the result
    revs,       \* per cell of an Item: the mutations made to its plugin
    fcall,      \* the call State::spawn started last
    startCancelled, \* the event's token was cancelled when start() was called
    haddr,      \* Address::commit of the handler address given to with_handler
    cfgLoaded,  \* the keys of loaded_plugins and loaded_handlers of a Config
    cfgOp,      \* the last configure_event and its result
    oper          \* the call of an Operation plugin: its task and its events

brokerVars == <<data, pc, pend, log>>
threadVars == <<pc, pend>>
callVars == <<stored, bnd>>
eventVars == <<attached, loaded, epc, hpc, ptask, ctask, hres, result, trace,
               hthunk, attach, api, returned, tokens, etok, htok, polled, lastPoll,
               cancelAt>>
repoVars == <<items, journal, plugins, puts>>
journalVars == <<jrec, arcs, jsnap, jpc, jheld, jgot, jpast, jcalls>>
cellVars == <<guard, refs, wrote>>
stVars == <<disallow, loadRes, cloned, cloneItems, heads, lookup>>
envVars == <<envOp, targetRoot, registered>>
baseVars == <<brokerVars, callVars, eventVars, repoVars>>
restVars == <<startCancelled, haddr, cfgLoaded, cfgOp, oper>>
lateVars == <<nameOp, revs, fcall, restVars>>
moreVars == <<journalVars, cellVars, stVars, envVars, lateVars>>
vars == <<data, pc, pend, log, stored, bnd,
          attached, loaded, epc, hpc, ptask, ctask, hres, result, trace,
          hthunk, attach, api, returned, tokens, etok, htok, polled, lastPoll,
          cancelAt, items, journal, plugins, puts,
          jrec, arcs, jsnap, jpc, jheld, jgot, jpast, jcalls, guard, refs, wrote,
          disallow, loadRes, cloned, cloneItems, heads, lookup,
          envOp, targetRoot, registered, nameOp, revs, fcall,
          startCancelled, haddr, cfgLoaded, cfgOp, oper>>

(***************************************************************************)
(* BTreeMap operations                                                     *)
(***************************************************************************)
ContainsKey(g, k) == g[k] # NoEntry

\* BTreeMap::insert returns the previous value
MapInsert(g, k, v) == [map |-> [g EXCEPT ![k] = v], previous |-> g[k]]

MapRemoveKeeps(g, k) == [map |-> g, removed |-> g[k]]

\* BTreeMap::remove returns the removed value
MapRemove(g, k) == [map |-> [g EXCEPT ![k] = NoEntry], removed |-> g[k]]

(***************************************************************************)
(* Broker::send, read phase: under the read lock                           *)
(***************************************************************************)
SendReadSkipsCheck(g, dest) == "write"

SendRead(g, dest) ==
    IF ContainsKey(g, dest) THEN "PreviousUnhandledRequest" ELSE "write"

(***************************************************************************)
(* Broker::send, write phase: under the write lock, one atomic step        *)
(***************************************************************************)
SendWriteOverwrites(g, dest, m) ==
    LET ins == MapInsert(g, dest, m)
    IN  IF ins.previous # NoEntry
        THEN [data |-> ins.map, res |-> "WriteRequestRaceCondition"]
        ELSE [data |-> ins.map, res |-> "Ok"]

SendWriteNoRaceCheck(g, dest, m) ==
    [data |-> MapInsert(g, dest, m).map, res |-> "Ok"]

SendWrite(g, dest, m) ==
    LET ins == MapInsert(g, dest, m)
    IN  IF ins.previous # NoEntry
        THEN [data |-> MapInsert(MapRemove(ins.map, dest).map, dest, ins.previous).map,
              res  |-> "WriteRequestRaceCondition"]
        ELSE [data |-> ins.map, res |-> "Ok"]

(***************************************************************************)
(* Broker::receive: under the write lock, one atomic step                  *)
(***************************************************************************)
ReceivePeeks(g, commit) ==
    [data |-> g, msg |-> IF g[commit] = NoEntry THEN Empty ELSE g[commit]]

ReceiveMarksEmpty(g, commit) ==
    [data |-> [g EXCEPT ![commit] = IF @ = NoEntry THEN Empty ELSE NoEntry],
     msg |-> IF g[commit] = NoEntry THEN Empty ELSE g[commit]]

Receive(g, commit) ==
    LET r == MapRemove(g, commit)
    IN  [data |-> r.map, msg |-> IF r.removed = NoEntry THEN Empty ELSE r.removed]

(***************************************************************************)
(* Item::borrow<T> / Item::is_type<T>                                      *)
(***************************************************************************)
IsType(commit, T) == ItemType(commit) = T

ItemBorrow(st, commit, T) == IF IsType(commit, T) THEN st[commit] ELSE NoEntry

(***************************************************************************)
(* Plugin::receive(&self, data) -> Option<Self>.  The default returns      *)
(* None; plugin type P overrides it and derives a receiver from a          *)
(* non-empty message.                                                      *)
(***************************************************************************)
PluginReceive(P, self, request) ==
    IF P = "P" /\ request # Empty
    THEN PluginState(self.rev, request)
    ELSE NoEntry

(***************************************************************************)
(* Call::bind<P>: type check, then receive at the item's commit and        *)
(* P::receive on the borrowed plugin.  received lists the requests passed  *)
(* to P::receive.                                                          *)
(***************************************************************************)
NoBind == [commit |-> 0, bound |-> "none", receiver |-> NoEntry]

CallBindReceivesFirst(g, st, commit, P) ==
    LET r == Receive(g, commit)
    IN  IF IsType(commit, P)
        THEN [data |-> r.data, res |-> "Ok", request |-> r.msg, received |-> <<r.msg>>,
              bind |-> [commit |-> commit, bound |-> P,
                        receiver |-> PluginReceive(P, ItemBorrow(st, commit, P), r.msg)]]
        ELSE [data |-> r.data, res |-> "PluginMismatch", request |-> NoEntry,
              received |-> <<>>, bind |-> NoBind]

CallBindKeepsMessage(g, st, commit, P) ==
    IF IsType(commit, P)
    THEN LET r == ReceivePeeks(g, commit)
         IN  [data |-> r.data, res |-> "Ok", request |-> r.msg, received |-> <<r.msg>>,
              bind |-> [commit |-> commit, bound |-> P,
                        receiver |-> PluginReceive(P, ItemBorrow(st, commit, P), r.msg)]]
    ELSE [data |-> g, res |-> "PluginMismatch", request |-> NoEntry,
          received |-> <<>>, bind |-> NoBind]

CallBind(g, st, commit, P) ==
    IF IsType(commit, P)
    THEN LET r == Receive(g, commit)
         IN  [data |-> r.data, res |-> "Ok", request |-> r.msg, received |-> <<r.msg>>,
              bind |-> [commit |-> commit, bound |-> P,
                        receiver |-> PluginReceive(P, ItemBorrow(st, commit, P), r.msg)]]
    ELSE [data |-> g, res |-> "PluginMismatch", request |-> NoEntry,
          received |-> <<>>, bind |-> NoBind]

(***************************************************************************)
(* Bind::receiver: the override if there is one, else the stored plugin    *)
(***************************************************************************)
BindReceiverIgnoresOverride(b, st) ==
    IF ItemBorrow(st, b.commit, b.bound) # NoEntry
    THEN [res |-> "Ok", value |-> ItemBorrow(st, b.commit, b.bound)]
    ELSE [res |-> "PluginMismatch", value |-> NoEntry]

BindReceiver(b, st) ==
    IF b.receiver # NoEntry
    THEN [res |-> "Ok", value |-> b.receiver]
    ELSE IF ItemBorrow(st, b.commit, b.bound) # NoEntry
         THEN [res |-> "Ok", value |-> ItemBorrow(st, b.commit, b.bound)]
         ELSE [res |-> "PluginMismatch", value |-> NoEntry]

(***************************************************************************)
(* Bind::update: a mutable borrow of the stored plugin; the caller mutates *)
(* the plugin through it (rev + 1).  value is the state it read.           *)
(***************************************************************************)
BindUpdate(b, st) ==
    IF ItemBorrow(st, b.commit, b.bound) # NoEntry
    THEN [res |-> "Ok", value |-> st[b.commit], bind |-> b,
          stored |-> [st EXCEPT ![b.commit] =
                         PluginState(st[b.commit].rev + 1, st[b.commit].applied)]]
    ELSE [res |-> "PluginMismatch", value |-> NoEntry, bind |-> b, stored |-> st]

(***************************************************************************)
(* Threads calling into one Broker                                         *)
(***************************************************************************)
InFlight == Cardinality({t \in Threads : pc[t] = "write"})

\* the threads are interchangeable: the first idle one takes the next call
FirstIdle(t) == pc[t] = "idle" /\ \A u \in Threads : pc[u] = "idle" => ThreadOrder(t) <= ThreadOrder(u)

CanStart(t) == FirstIdle(t) /\ Len(log) + InFlight < MaxLog

\* every send carries a payload of its own, so that any two messages differ
FreshMessage == Message(Len(log) + InFlight + 1)

Idle == [dest |-> 0, msg |-> NoEntry, inv |-> 0]

StoreInit == stored = [c \in Commits |-> PluginState(0, NoEntry)]

BrokerInit ==
    /\ data = [c \in Commits |-> NoEntry]
    /\ pc = [t \in Threads |-> "idle"]
    /\ pend = [t \in Threads |-> Idle]
    /\ log = <<>>

\* send(dest, m) up to the release of the read lock
SendBegin(t, dest) ==
    /\ CanStart(t)
    /\ LET m == FreshMessage IN
       IF SendRead(data, dest) = "write"
       THEN /\ pc' = [pc EXCEPT ![t] = "write"]
            /\ pend' = [pend EXCEPT ![t] = [dest |-> dest, msg |-> m, inv |-> Len(log)]]
            /\ log' = log
       ELSE /\ log' = Append(log, [op |-> "send", dest |-> dest, msg |-> m,
                                   res |-> SendRead(data, dest), got |-> NoEntry,
                                   inv |-> Len(log)])
            /\ UNCHANGED <<pc, pend>>
    /\ data' = data
    /\ UNCHANGED <<callVars, eventVars, repoVars, moreVars>>

\* the rest of send: the write lock section and the return
SendFinish(t) ==
    /\ pc[t] = "write"
    /\ LET w == SendWrite(data, pend[t].dest, pend[t].msg)
       IN  /\ data' = w.data
           /\ log' = Append(log, [op |-> "send", dest |-> pend[t].dest, msg |-> pend[t].msg,
                                  res |-> w.res, got |-> NoEntry, inv |-> pend[t].inv])
    /\ pc' = [pc EXCEPT ![t] = "idle"]
    /\ pend' = [pend EXCEPT ![t] = Idle]
    /\ UNCHANGED <<callVars, eventVars, repoVars, moreVars>>

\* receive(commit)
DoReceive(t, commit) ==
    /\ CanStart(t)
    /\ LET r == Receive(data, commit)
       IN  /\ data' = r.data
           /\ log' = Append(log, [op |-> "receive", dest |-> commit, msg |-> NoEntry,
                                  res |-> "Ok", got |-> r.msg, inv |-> Len(log)])
    /\ UNCHANGED <<pc, pend>>
    /\ UNCHANGED <<callVars, eventVars, repoVars, moreVars>>

\* Call::bind<P>() on the item at commit, P the type of the item
DoBind(t, commit) ==
    /\ CanStart(t)
    /\ LET b == CallBind(data, stored, commit, ItemType(commit))
       IN  /\ data' = b.data
           /\ log' = Append(log, [op |-> "bind", dest |-> commit, msg |-> b.bind.receiver,
                                  res |-> b.res, got |-> b.request, inv |-> Len(log),
                                  bound |-> ItemType(commit), received |-> b.received])
    /\ UNCHANGED <<pc, pend>>
    /\ UNCHANGED <<callVars, eventVars, repoVars, moreVars>>

BrokerNext ==
    \/ \E t \in Threads, dest \in Commits : SendBegin(t, dest)
    \/ \E t \in Threads : SendFinish(t)
    \/ \E t \in Threads, commit \in Commits : DoReceive(t, commit)
    \/ \E t \in Threads, commit \in Commits : DoBind(t, commit)

(***************************************************************************)
(* One caller that binds items and uses the binding, and a publisher       *)
(***************************************************************************)
Entry(op, dest, msg, res, got) ==
    [op |-> op, dest |-> dest, msg |-> msg, res |-> res, got |-> got, inv |-> Len(log)]

\* Broker::send as one thread runs it: read phase, then write phase
Send(g, dest, m) ==
    IF SendRead(g, dest) = "write"
    THEN SendWrite(g, dest, m)
    ELSE [data |-> g, res |-> SendRead(g, dest)]

CallSend(dest) ==
    /\ Len(log) < MaxCalls
    /\ LET m == Message(Len(log) + 1)
           w == Send(data, dest, m)
       IN  /\ data' = w.data
           /\ log' = Append(log, Entry("send", dest, m, w.res, NoEntry))
    /\ UNCHANGED <<stored, bnd>>
    /\ UNCHANGED <<threadVars, eventVars, repoVars, moreVars>>

\* call.bind::<P>() on the item at commit
CallBindStep(commit, P) ==
    /\ Len(log) < MaxCalls
    /\ LET b == CallBind(data, stored, commit, P)
       IN  /\ data' = b.data
           /\ bnd' = IF b.res = "Ok" THEN b.bind ELSE bnd
           /\ log' = Append(log, [op |-> "bind", dest |-> commit, msg |-> b.bind.receiver,
                                  res |-> b.res, got |-> b.request, inv |-> Len(log),
                                  bound |-> P, received |-> b.received])
    /\ UNCHANGED stored
    /\ UNCHANGED <<threadVars, eventVars, repoVars, moreVars>>

\* bind.receiver()
CallReceiver ==
    /\ Len(log) < MaxCalls
    /\ bnd # NoBind
    /\ LET r == BindReceiver(bnd, stored)
       IN  log' = Append(log, Entry("receiver", bnd.commit, NoEntry, r.res, r.value))
    /\ UNCHANGED <<data, stored, bnd>>
    /\ UNCHANGED <<threadVars, eventVars, repoVars, moreVars>>

\* bind.update() and a mutation through the reference (as work_mut does)
CallUpdate ==
    /\ Len(log) < MaxCalls
    /\ bnd # NoBind
    /\ LET u == BindUpdate(bnd, stored)
       IN  /\ stored' = u.stored
           /\ bnd' = u.bind
           /\ log' = Append(log, Entry("update", bnd.commit, NoEntry, u.res, u.value))
    /\ UNCHANGED data
    /\ UNCHANGED <<threadVars, eventVars, repoVars, moreVars>>

CallNext ==
    \/ \E dest \in Commits : CallSend(dest)
    \/ \E commit \in Commits, P \in PluginTypes : CallBindStep(commit, P)
    \/ CallReceiver
    \/ CallUpdate

(***************************************************************************)
(* CancellationToken tree: tokens[t] is the node of token t                *)
(***************************************************************************)
\* State.cancel, the token made by State::new
Root == 1

\* asked: cancel() was called on this very token
RootToken == [parent |-> 0, kind |-> "root", cancelled |-> FALSE, asked |-> FALSE]

RECURSIVE Ancestors(_, _)
Ancestors(tk, t) ==
    IF tk[t].parent = 0 THEN {}
    ELSE {tk[t].parent} \cup Ancestors(tk, tk[t].parent)

\* the token and everything made from it by child_token
Subtree(tk, t) == {i \in 1..Len(tk) : i = t \/ t \in Ancestors(tk, i)}

\* CancellationToken::child_token: a child of a cancelled token is cancelled
ChildToken(tk, p, kind) ==
    Append(tk, [parent |-> p, kind |-> kind, cancelled |-> tk[p].cancelled,
                asked |-> FALSE])

\* CancellationToken::cancel: the token and its descendants
CancelTokenUpward(tk, t) ==
    [i \in 1..Len(tk) |->
        IF i \in Subtree(tk, t) \/ i = tk[t].parent
        THEN [tk[i] EXCEPT !.cancelled = TRUE, !.asked = (i = t \/ tk[i].asked)]
        ELSE tk[i]]

CancelToken(tk, t) ==
    [i \in 1..Len(tk) |->
        IF i \in Subtree(tk, t)
        THEN [tk[i] EXCEPT !.cancelled = TRUE, !.asked = (i = t \/ tk[i].asked)]
        ELSE tk[i]]

\* State::event followed by Event::fork, as State::spawn does
SpawnTokens == ChildToken(ChildToken(<<RootToken>>, Root, "event"), 2, "fork")

(***************************************************************************)
(* Event::start / Event::returns of an event for the plugin at             *)
(* TargetCommit, with or without a handler (the item at HandlerCommit),    *)
(* and a publisher                                                         *)
(***************************************************************************)
\* Event.call.item.commit() of the event's plugin
TargetCommit == 1
\* Address::commit of the handler attached to the event
HandlerCommit == 2

\* what a call-fn returns: Ok(Work) or an error such as Bind::skip
CallOutcomes == {"Work", "PluginCallSkipped"}
\* what a spawned task ends with; TaskError is a JoinError (panic)
TaskOutcomes == {"Ok", "PluginCallError", "TaskError"}
\* what Handler::handle returns
HandleOutcomes == {"Ok", "PluginCallError"}

\* Work::poll with its token not cancelled: Pending until the task ends,
\* then the task's result
WorkPollNoWait(task) == IF task = "running" THEN "Ok" ELSE task

WorkPoll(task) == IF task = "running" THEN "Pending" ELSE task

\* Work::poll: the token is checked first; a cancelled token aborts the task
Poll(isCancelled, task) ==
    IF isCancelled
    THEN [res |-> "PluginAborted", abort |-> TRUE]
    ELSE [res |-> WorkPoll(task), abort |-> FALSE]

\* JoinHandle::abort: a finished task is left as it is
Abort(task) == IF task = "running" THEN "aborted" ELSE task

\* a Work is polled when it is first awaited, and again when the waker it
\* gave to the JoinHandle is called, that is when the task has ended
CanPoll(site, task) == site \notin polled \/ task # "running"

NoPoll == [site |-> "none", cancelled |-> FALSE, task |-> "none",
           res |-> "none", abort |-> FALSE]

PollRecord(site, t, task, p) ==
    [site |-> site, cancelled |-> tokens[t].cancelled, task |-> task,
     res |-> p.res, abort |-> p.abort]

Ev(ev, commit, msg, res) == [ev |-> ev, commit |-> commit, msg |-> msg, res |-> res]

\* the message the handler's call-fn publishes to its own commit
Reply == [kind |-> "Json", id |-> 0]

NoAttach == [fn |-> "none", target |-> "none", before |-> "none", res |-> "none"]

\* Item::matches_type(type_id)
MatchesType(commit, typeId) == ItemType(commit) = typeId

\* Event::with_handler::<H>(address), target the type H::Target; handler is
\* the target type of the thunk in Event.handler, "none" if there is none
WithHandler(commit, target, handler) ==
    IF IsType(commit, target)
    THEN [res |-> "Ok", handler |-> target]
    ELSE [res |-> "PluginMismatch", handler |-> handler]

\* Event::set_handler(address, handlerThunk), target the thunk's target type
SetHandler(commit, target, handler) ==
    IF MatchesType(commit, target)
    THEN [res |-> "Ok", handler |-> target]
    ELSE [res |-> "PluginMismatch", handler |-> handler]

\* an event made by State::event, nothing attached, not started
EventUnstarted ==
    /\ attach = NoAttach
    /\ epc = "created"
    /\ hpc = "none"
    /\ ptask = "none"
    /\ ctask = "none"
    /\ hres = "none"
    /\ result = "none"
    /\ returned = NoEntry
    /\ htok = 0
    /\ polled = {}
    /\ lastPoll = NoPoll
    /\ cancelAt = "none"
    /\ trace = <<>>

EventFresh ==
    /\ attached = FALSE
    /\ hthunk = "none"
    /\ EventUnstarted

\* an event made by State::event, with or without a handler attached
EventInit ==
    /\ attached \in BOOLEAN
    /\ hthunk = IF attached THEN ItemType(TargetCommit) ELSE "none"
    /\ EventUnstarted
    /\ loaded \in BOOLEAN
    /\ api \in {"start", "returns"}
    /\ tokens = ChildToken(<<RootToken>>, Root, "event")
    /\ etok = 2

\* event.with_handler::<H>(address) before the event is started
EventWithHandler(target) ==
    /\ epc = "created"
    /\ LET r == WithHandler(TargetCommit, target, hthunk)
       IN  /\ hthunk' = r.handler
           /\ attached' = (r.handler # "none")
           /\ attach' = [fn |-> "with_handler", target |-> target,
                         before |-> hthunk, res |-> r.res]
    /\ UNCHANGED <<data, loaded, api, epc, hpc, ptask, ctask, hres, result, returned,
                   tokens, etok, htok, polled, lastPoll, cancelAt, trace>>
    /\ UNCHANGED <<threadVars, log, callVars, repoVars, moreVars>>

\* event.set_handler(address, &handlerThunk) before the event is started
EventSetHandler(target) ==
    /\ epc = "created"
    /\ LET r == SetHandler(TargetCommit, target, hthunk)
       IN  /\ hthunk' = r.handler
           /\ attached' = (r.handler # "none")
           /\ attach' = [fn |-> "set_handler", target |-> target,
                         before |-> hthunk, res |-> r.res]
    /\ UNCHANGED <<data, loaded, api, epc, hpc, ptask, ctask, hres, result, returned,
                   tokens, etok, htok, polled, lastPoll, cancelAt, trace>>
    /\ UNCHANGED <<threadVars, log, callVars, repoVars, moreVars>>

AfterThunkGoesOn(outcome, att) == IF att THEN "find_handler" ELSE "await"

\* where start() is after the thunk of the plugin: with a handler wrap_thunk
\* goes on to find it, and the ? returns an error of the call-fn at once
AfterThunk(outcome, att) ==
    IF outcome # "Work" THEN "done"
    ELSE IF att THEN "find_handler" ELSE "await"

\* Event::start: Target::thunk(call), i.e. call.bind::<Target>() and
\* Target::call(bind), reached directly or as the first line of wrap_thunk
StartThunk(outcome) ==
    /\ epc = "created"
    /\ LET b == CallBind(data, stored, TargetCommit, ItemType(TargetCommit))
       IN  /\ data' = b.data
           /\ trace' = trace \o <<Ev("bind", TargetCommit, b.request, b.res),
                                  Ev("plugin_call", TargetCommit, NoEntry, outcome)>>
    /\ epc' = AfterThunk(outcome, attached)
    /\ IF outcome = "Work"
       THEN /\ ptask' = "running"
            /\ result' = result
       ELSE /\ result' = outcome
            /\ ptask' = ptask
    /\ startCancelled' = tokens[etok].cancelled
    /\ UNCHANGED <<attached, hthunk, attach, loaded, api, hpc, ctask, hres, returned,
                   tokens, etok, htok, polled, lastPoll, cancelAt>>
    /\ UNCHANGED <<threadVars, log, callVars, repoVars, journalVars, cellVars,
                   stVars, envVars, nameOp, revs, fcall, haddr, cfgLoaded, cfgOp, oper>>

HandlerItemAssumed(found) == TRUE

\* find_plugin(address of the handler).or_else(find_plugin(name path)) is Some
HandlerItem(found) == found

\* call.handler().and_then(|a| find_plugin(a)).or_else(|| find_plugin(name
\* path)): the commit of the Item, 0 for None; the address names an Item of
\* the State, or the handler's, which is there when it was found
FoundHandler(addr, found) ==
    IF addr # HandlerCommit THEN addr
    ELSE IF HandlerItem(found) THEN HandlerCommit ELSE 0

\* wrap_thunk after the plugin's work was spawned: find the handler's item,
\* make the handler's Call with a child of the State's token, bind the
\* handler (the ? returns PluginMismatch and drops the work) and defer the
\* body; without the item return the work
FindHandler ==
    /\ epc = "find_handler"
    /\ IF FoundHandler(haddr, loaded) # 0
       THEN LET b == CallBind(data, stored, FoundHandler(haddr, loaded),
                              ItemType(HandlerCommit))
            IN  /\ data' = b.data
                /\ trace' = Append(trace, Ev("bind", FoundHandler(haddr, loaded),
                                             b.request, b.res))
                /\ IF b.res = "Ok"
                   THEN /\ hpc' = "await_work"
                        /\ tokens' = ChildToken(tokens, Root, "handler")
                        /\ htok' = Len(tokens) + 1
                        /\ epc' = "await"
                        /\ result' = result
                   ELSE /\ epc' = "done"
                        /\ result' = b.res
                        /\ UNCHANGED <<hpc, tokens, htok>>
       ELSE /\ epc' = "await"
            /\ UNCHANGED <<data, trace, hpc, tokens, htok, result>>
    /\ UNCHANGED <<attached, hthunk, attach, loaded, api, ptask, ctask, hres,
                   returned, etok, polled, lastPoll, cancelAt>>
    /\ UNCHANGED <<threadVars, log, callVars, repoVars, moreVars>>

\* the plugin's task ends
PluginTask(outcome) ==
    /\ ptask = "running"
    /\ ptask' = outcome
    /\ trace' = Append(trace, Ev("plugin_work_complete", TargetCommit, NoEntry, outcome))
    /\ UNCHANGED <<data, attached, hthunk, attach, loaded, api, epc, hpc, ctask, hres,
                   result, returned, tokens, etok, htok, polled, lastPoll, cancelAt>>
    /\ UNCHANGED <<threadVars, log, callVars, repoVars, moreVars>>

\* deferred body: work.await?, the plugin's Work carries the event's token
HandlerAwaitWork ==
    /\ hpc = "await_work"
    /\ CanPoll("work", ptask)
    /\ LET p == Poll(tokens[etok].cancelled, ptask)
       IN  /\ lastPoll' = PollRecord("work", etok, ptask, p)
           /\ IF p.res = "Pending"
              THEN /\ polled' = polled \cup {"work"}
                   /\ UNCHANGED <<hpc, hres, ptask>>
              ELSE /\ polled' = polled
                   /\ ptask' = IF p.abort THEN Abort(ptask) ELSE ptask
                   /\ hpc' = IF p.res = "Ok" THEN "rebind" ELSE "finished"
                   /\ hres' = IF p.res = "Ok" THEN hres ELSE p.res
    /\ UNCHANGED <<data, attached, hthunk, attach, loaded, api, epc, ctask, result,
                   returned, tokens, etok, htok, cancelAt, trace>>
    /\ UNCHANGED <<threadVars, log, callVars, repoVars, moreVars>>

\* deferred body: call.bind::<Self::Target>()?
HandlerRebind ==
    /\ hpc = "rebind"
    /\ LET b == CallBind(data, stored, TargetCommit, ItemType(TargetCommit))
       IN  /\ data' = b.data
           /\ trace' = Append(trace, Ev("rebind", TargetCommit, b.request, b.res))
    /\ hpc' = "handle"
    /\ UNCHANGED <<attached, hthunk, attach, loaded, api, epc, ptask, ctask, hres,
                   result, returned, tokens, etok, htok, polled, lastPoll, cancelAt>>
    /\ UNCHANGED <<threadVars, log, callVars, repoVars, moreVars>>

\* the match on Self::handle's result: Ok goes on to Self::call, any error
\* ends the deferred body with PluginCallSkipped
HandleArmPropagates(outcome, res) ==
    IF outcome = "Ok"
    THEN [hpc |-> "call", hres |-> res]
    ELSE [hpc |-> "finished", hres |-> outcome]

HandleArm(outcome, res) ==
    IF outcome = "Ok"
    THEN [hpc |-> "call", hres |-> res]
    ELSE [hpc |-> "finished", hres |-> "PluginCallSkipped"]

\* deferred body: Self::handle(other, b.clone())
HandlerHandle(outcome) ==
    /\ hpc = "handle"
    /\ trace' = Append(trace, Ev("handle_invoked", HandlerCommit, NoEntry, outcome))
    /\ hpc' = HandleArm(outcome, hres).hpc
    /\ hres' = HandleArm(outcome, hres).hres
    /\ UNCHANGED <<data, attached, hthunk, attach, loaded, api, epc, ptask, ctask,
                   result, returned, tokens, etok, htok, polled, lastPoll, cancelAt>>
    /\ UNCHANGED <<threadVars, log, callVars, repoVars, moreVars>>

\* the deferred task was aborted while it ran between two awaits
AbortPending == "abort" \in polled

\* deferred body: Self::call(b)?; an aborted task stops at the await
HandlerCall(outcome) ==
    /\ hpc = "call"
    /\ trace' = Append(trace, Ev("handler_call_started", HandlerCommit, NoEntry, outcome))
    /\ IF outcome = "Work"
       THEN /\ hpc' = IF AbortPending THEN "aborted" ELSE "await_call"
            /\ ctask' = "running"
            /\ hres' = hres
       ELSE hpc' = "finished" /\ hres' = outcome /\ ctask' = ctask
    /\ UNCHANGED <<data, attached, hthunk, attach, loaded, api, epc, ptask, result,
                   returned, tokens, etok, htok, polled, lastPoll, cancelAt>>
    /\ UNCHANGED <<threadVars, log, callVars, repoVars, moreVars>>

\* the handler's task ends without publishing
HandlerCallTask(outcome) ==
    /\ ctask = "running"
    /\ ctask' = outcome
    /\ UNCHANGED <<data, attached, hthunk, attach, loaded, api, epc, hpc, ptask, hres,
                   result, returned, tokens, etok, htok, polled, lastPoll, cancelAt, trace>>
    /\ UNCHANGED <<threadVars, log, callVars, repoVars, moreVars>>

\* the handler's task ends by publishing to the handler's own commit, as
\* Client::call does: broker().send(item().commit(), returns)
HandlerCallReply ==
    /\ ctask = "running"
    /\ LET w == Send(data, HandlerCommit, Reply)
       IN  /\ data' = w.data
           /\ ctask' = w.res
           /\ trace' = Append(trace, Ev("reply", HandlerCommit, Reply, w.res))
    /\ UNCHANGED <<attached, hthunk, attach, loaded, api, epc, hpc, ptask, hres,
                   result, returned, tokens, etok, htok, polled, lastPoll, cancelAt>>
    /\ UNCHANGED <<threadVars, log, callVars, repoVars, moreVars>>

\* deferred body: .await of the handler's work, the value of the body; the
\* handler's Work carries the handler Call's token
HandlerAwaitCall ==
    /\ hpc = "await_call"
    /\ CanPoll("call", ctask)
    /\ LET p == Poll(tokens[htok].cancelled, ctask)
       IN  /\ lastPoll' = PollRecord("call", htok, ctask, p)
           /\ IF p.res = "Pending"
              THEN /\ polled' = polled \cup {"call"}
                   /\ UNCHANGED <<hpc, hres, ctask>>
              ELSE /\ polled' = polled
                   /\ ctask' = IF p.abort THEN Abort(ctask) ELSE ctask
                   /\ hpc' = "finished"
                   /\ hres' = p.res
    /\ UNCHANGED <<data, attached, hthunk, attach, loaded, api, epc, ptask, result,
                   returned, tokens, etok, htok, cancelAt, trace>>
    /\ UNCHANGED <<threadVars, log, callVars, repoVars, moreVars>>

\* the task start() awaits: the deferred body if there is one, else the
\* plugin's task
AwaitedTask ==
    IF hpc = "none" THEN ptask
    ELSE IF hpc = "finished" THEN hres ELSE "running"

\* the token of the Work start() awaits: the handler Call's for the
\* deferred body, the event's for the plugin's work
AwaitedToken == IF hpc = "none" THEN etok ELSE htok

\* Event::returns after exec(call).await: the error, or the message received
\* at the handler's commit, or Empty without a handler
ReturnsPeeks(g, hasHandler, res) ==
    IF res # "Ok" THEN [data |-> g, msg |-> NoEntry]
    ELSE IF hasHandler THEN ReceivePeeks(g, HandlerCommit)
    ELSE [data |-> g, msg |-> Empty]

Returns(g, hasHandler, res) ==
    IF res # "Ok" THEN [data |-> g, msg |-> NoEntry]
    ELSE IF hasHandler THEN Receive(g, HandlerCommit)
    ELSE [data |-> g, msg |-> Empty]

\* Thunk::exec: (thunk)(call)?.await is polled; when it resolves, start()
\* returns the result and returns() goes on to receive
Resolve ==
    /\ epc = "await"
    /\ CanPoll("start", AwaitedTask)
    /\ LET p == Poll(tokens[AwaitedToken].cancelled, AwaitedTask)
           r == Returns(data, attached, p.res)
       IN  /\ lastPoll' = PollRecord("start", AwaitedToken, AwaitedTask, p)
           /\ IF p.res = "Pending"
              THEN /\ polled' = polled \cup {"start"}
                   /\ UNCHANGED <<epc, result, returned, data, trace, ptask, hpc>>
              ELSE /\ epc' = "done"
                   /\ result' = p.res
                   /\ ptask' = IF p.abort /\ hpc = "none" THEN Abort(ptask) ELSE ptask
                   /\ hpc' = IF p.abort /\ hpc \in {"await_work", "await_call"}
                             THEN "aborted" ELSE hpc
                   /\ polled' = IF p.abort /\ hpc \in {"rebind", "handle", "call"}
                                THEN polled \cup {"abort"} ELSE polled
                   /\ data' = IF api = "returns" THEN r.data ELSE data
                   /\ returned' = IF api = "returns" THEN r.msg ELSE returned
                   /\ trace' = Append(trace, Ev("resolved", TargetCommit, NoEntry, p.res))
    /\ UNCHANGED <<attached, hthunk, attach, loaded, api, ctask, hres, tokens, etok, htok,
                   cancelAt>>
    /\ UNCHANGED <<threadVars, log, callVars, repoVars, moreVars>>

SendsMade == Cardinality({i \in 1..Len(trace) : trace[i].ev = "send"})

\* a publisher sends to a commit while the event runs
Publish(dest) ==
    /\ SendsMade < MaxSends
    /\ LET m == Message(SendsMade + 1)
           w == Send(data, dest, m)
       IN  /\ data' = w.data
           /\ trace' = Append(trace, Ev("send", dest, m, w.res))
    /\ UNCHANGED <<attached, hthunk, attach, loaded, api, epc, hpc, ptask, ctask, hres,
                   result, returned, tokens, etok, htok, polled, lastPoll, cancelAt>>
    /\ UNCHANGED <<threadVars, log, callVars, repoVars, moreVars>>

EventNext ==
    \/ \E outcome \in CallOutcomes : StartThunk(outcome)
    \/ FindHandler
    \/ \E outcome \in TaskOutcomes : PluginTask(outcome)
    \/ HandlerAwaitWork
    \/ HandlerRebind
    \/ \E outcome \in HandleOutcomes : HandlerHandle(outcome)
    \/ \E outcome \in CallOutcomes : HandlerCall(outcome)
    \/ \E outcome \in TaskOutcomes : HandlerCallTask(outcome)
    \/ HandlerCallReply
    \/ HandlerAwaitCall
    \/ Resolve
    \/ \E dest \in Commits : Publish(dest)

(***************************************************************************)
(* Attaching a handler to a fresh event, then starting it                  *)
(***************************************************************************)
AttachNext ==
    \/ \E target \in PluginTypes : EventWithHandler(target)
    \/ \E target \in PluginTypes : EventSetHandler(target)
    \/ \E outcome \in CallOutcomes : StartThunk(outcome)
    \/ FindHandler
    \/ \E outcome \in TaskOutcomes : PluginTask(outcome)
    \/ HandlerAwaitWork
    \/ HandlerRebind
    \/ \E outcome \in HandleOutcomes : HandlerHandle(outcome)
    \/ \E outcome \in CallOutcomes : HandlerCall(outcome)
    \/ \E outcome \in TaskOutcomes : HandlerCallTask(outcome)
    \/ HandlerAwaitCall
    \/ Resolve

(***************************************************************************)
(* Cancellation: tokens are made and cancelled; an event spawned by        *)
(* State::spawn runs while its tokens are cancelled                        *)
(***************************************************************************)
\* what runs at the moment
Running ==
    IF epc = "done" THEN "nothing"
    ELSE IF ptask = "running" THEN "plugin"
    ELSE IF ctask = "running" THEN "handler"
    ELSE "nothing"

\* State::event: a child of the State's token
StateEvent ==
    /\ Len(tokens) < MaxTokens
    /\ tokens' = ChildToken(tokens, Root, "event")
    /\ UNCHANGED <<data, attached, hthunk, attach, loaded, api, epc, hpc, ptask, ctask,
                   hres, result, returned, etok, htok, polled, lastPoll, cancelAt, trace>>
    /\ UNCHANGED <<threadVars, log, callVars, repoVars, moreVars>>

\* Event::fork / Call::fork of an event or of a fork: a child of its token
EventFork(t) ==
    /\ Len(tokens) < MaxTokens
    /\ tokens[t].kind \in {"event", "fork"}
    /\ tokens' = ChildToken(tokens, t, "fork")
    /\ UNCHANGED <<data, attached, hthunk, attach, loaded, api, epc, hpc, ptask, ctask,
                   hres, result, returned, etok, htok, polled, lastPoll, cancelAt, trace>>
    /\ UNCHANGED <<threadVars, log, callVars, repoVars, moreVars>>

\* cancel() on the token of an event or of a fork
TokenCancel(t) ==
    /\ t # Root
    /\ ~tokens[t].cancelled
    /\ tokens' = CancelToken(tokens, t)
    /\ cancelAt' = IF t = etok THEN Running ELSE cancelAt
    /\ UNCHANGED <<data, attached, hthunk, attach, loaded, api, epc, hpc, ptask, ctask,
                   hres, result, returned, etok, htok, polled, lastPoll, trace>>
    /\ UNCHANGED <<threadVars, log, callVars, repoVars, moreVars>>

\* State::close
StateClose ==
    /\ ~tokens[Root].cancelled
    /\ tokens' = CancelToken(tokens, Root)
    /\ UNCHANGED <<data, attached, hthunk, attach, loaded, api, epc, hpc, ptask, ctask,
                   hres, result, returned, etok, htok, polled, lastPoll, cancelAt, trace>>
    /\ UNCHANGED <<threadVars, log, callVars, repoVars, moreVars>>

TokenNext ==
    \/ StateEvent
    \/ \E t \in 1..Len(tokens) : EventFork(t)
    \/ \E t \in 1..Len(tokens) : TokenCancel(t)
    \/ StateClose

\* an event made by State::spawn, with or without a handler
CancelInit ==
    /\ attached \in BOOLEAN
    /\ hthunk = IF attached THEN ItemType(TargetCommit) ELSE "none"
    /\ EventUnstarted
    /\ loaded = TRUE
    /\ api = "start"
    /\ tokens = SpawnTokens
    /\ etok = 3

CancelNext ==
    \/ \E outcome \in CallOutcomes : StartThunk(outcome)
    \/ FindHandler
    \/ \E outcome \in TaskOutcomes : PluginTask(outcome)
    \/ HandlerAwaitWork
    \/ HandlerRebind
    \/ \E outcome \in HandleOutcomes : HandlerHandle(outcome)
    \/ \E outcome \in CallOutcomes : HandlerCall(outcome)
    \/ \E outcome \in TaskOutcomes : HandlerCallTask(outcome)
    \/ HandlerAwaitCall
    \/ Resolve
    \/ \E t \in 1..Len(tokens) : TokenCancel(t)
    \/ StateClose

(***************************************************************************)
(* runir: content-addressed commits.  The halves of a commit's Uuid are    *)
(* u64 in the code and HashBits wide here; the CRC is the same shift       *)
(* register at that width.  A content is the bits of its serialization.    *)
(***************************************************************************)
HashBits == 4
Poly == 3
Words == 0..(2^HashBits - 1)
NoCommit == -1

RECURSIVE XorBits(_, _, _)
XorBits(a, b, n) ==
    IF n = 0 THEN 0
    ELSE ((a + b) % 2) + 2 * XorBits(a \div 2, b \div 2, n - 1)

XorTable == [a \in Words, b \in Words |-> XorBits(a, b, HashBits)]

\* ^ on two halves
Xor(a, b) == XorTable[a, b]

Uuid(hi, lo) == [hi |-> hi, lo |-> lo]

\* to_be_bytes: the bits of n, highest first
RECURSIVE BitsOf(_, _)
BitsOf(n, k) == IF k = 0 THEN <<>> ELSE Append(BitsOf(n \div 2, k - 1), n % 2)

BitsTable == [n \in Words |-> BitsOf(n, HashBits)]

ToBits(n) == BitsTable[n]

CrcShift(crc, bit) ==
    LET top == crc \div (2^(HashBits - 1))
        sh  == (2 * crc) % (2^HashBits)
    IN  IF top # bit THEN Xor(sh, Poly) ELSE sh

CrcTable == [crc \in Words, bit \in {0, 1} |-> CrcShift(crc, bit)]

\* one bit into the CRC register
CrcUpdate(crc, bit) == CrcTable[crc, bit]

RECURSIVE CrcDigest(_, _)
CrcDigest(crc, bits) ==
    IF bits = <<>> THEN crc
    ELSE CrcDigest(CrcUpdate(crc, Head(bits)), Tail(bits))

\* crc().digest(), update(bits), finalize()
Crc(bits) == CrcDigest(0, bits)

\* plugin types, one for each content_from of derive(Plugin)
StoreTypes == {"BincodePlugin", "NilPlugin", "RandomPlugin"}

ContentFrom(T) ==
    CASE T = "BincodePlugin" -> "BincodeContent"
      [] T = "NilPlugin"     -> "NilContent"
      [] T = "RandomPlugin"  -> "RandomContent"

\* serialized plugins: two that differ in one bit, and one whose CRC is the
\* CRC of the first
Contents == {<<0, 0, 0, 0, 0>>, <<0, 0, 0, 0, 1>>, <<1, 0, 0, 1, 1>>}

\* values Uuid::new_v4 gives
Draws == {1, 6}

\* the state_uuid calls of one put, by the commit that digests the resource
DrawSites == {"Thunk", "Name", "Labels", "Attributes"}

DrawsFor(T, sites) ==
    IF ContentFrom(T) = "RandomContent" THEN [sites -> Draws]
    ELSE {[s \in sites |-> 0]}

\* Content::state_uuid of a plugin
StateUuid(T, c, draw) ==
    CASE ContentFrom(T) = "BincodeContent" -> Uuid(Crc(c), 0)
      [] ContentFrom(T) = "NilContent"     -> Uuid(0, 0)
      [] ContentFrom(T) = "RandomContent"  -> Uuid(draw, 0)

\* the high bits that identify a representation type
TypeBits(R) ==
    CASE R = "Labels"     -> 1
      [] R = "Attributes" -> 2
      [] R = "Thunk"      -> 3
      [] R = "Name"       -> 4
      [] R = "HandlerThunk" -> 5

\* the initial Uuid of a commit of R
HashUuid(R) == Uuid(TypeBits(R), 0)

\* the hash of a value linked to the type R
LinkHash(R, x) == (3 * TypeBits(R) + 5 * x + 1) % (2^HashBits)

LinkHashContent(R, uuid) == LinkHash(R, Xor(uuid.hi, uuid.lo))

Idents == {"Unit", "a"}

IdentBits(i) == IF i = "a" THEN 1 ELSE 2

LinkHashId(R, i) == LinkHash(R, IdentBits(i))

RepoCommitCounts(jr, R) ==
    Uuid(HashUuid(R).hi, Cardinality({k \in Words : jr[k].repr # "none"}))

\* Repo::commit: the journal is held and not read
RepoCommit(jr, R) == HashUuid(R)

\* Commit::ident
CommitIdent(u, R, i) ==
    LET next_lo == IF i = "Unit" THEN 0 ELSE LinkHashId(R, i)
    IN  Uuid(u.hi, Xor(u.lo, next_lo))

\* Commit::digest_repr
DigestRepr(u, R, repr) == Uuid(u.hi, Xor(u.lo, LinkHashContent(R, repr)))

DigestSkips(u, R, state) == u

\* Commit::digest
Digest(u, R, state) == Uuid(u.hi, Xor(u.lo, LinkHashContent(R, state)))

\* Commit::finish: the commit id
Finish(u) == Xor(u.hi, u.lo)

\* assign(repr, resource).ident(i).complete()
Complete(jr, R, repr, i, state) ==
    Finish(Digest(DigestRepr(CommitIdent(RepoCommit(jr, R), R, i), R, repr), R, state))

\* what a commit folded: the hashes of its contributions, and its id
Folded(jr, R, repr, i, state) ==
    [hi     |-> RepoCommit(jr, R).hi,
     ident  |-> IF i = "Unit" THEN 0 ELSE LinkHashId(R, i),
     repr   |-> LinkHashContent(R, repr),
     res    |-> LinkHashContent(R, state),
     commit |-> Complete(jr, R, repr, i, state)]

NoAttrs == [k \in Words |-> NoCommit]

\* a logged handle: its representation type, the plugin of a Name, and the
\* map of an Attributes
Handle(R, name, attrs) == [repr |-> R, name |-> name, attrs |-> attrs]

NoHandle == Handle("none", "none", NoAttrs)

\* Journal::log: a commit that is recorded keeps its handle
JournalLog(jr, k, h) == IF jr[k] # NoHandle THEN jr ELSE [jr EXCEPT ![k] = h]

\* Attributes::state_uuid: the CRC of the pairs, in key order
RECURSIVE AttrBits(_, _)
AttrBits(attrs, k) ==
    IF k \notin Words THEN <<>>
    ELSE (IF attrs[k] = NoCommit THEN <<>> ELSE ToBits(k) \o ToBits(attrs[k]))
         \o AttrBits(attrs, k + 1)

AttributesUuid(attrs) == Uuid(Crc(AttrBits(attrs, 0)), 0)

\* Labels::state_uuid
LabelSets == {<<>>, <<1, 0>>}

LabelsUuid(labels) == Uuid(Crc(labels), 0)

\* Store::put
StorePut(jr, T, c) ==
    [type |-> T, content |-> c, ident |-> "Unit", labels |-> <<>>,
     attrs |-> NoAttrs, jr |-> jr]

PutLabel(p, labels) == [p EXCEPT !.labels = labels]

PutIdent(p, i) == [p EXCEPT !.ident = i]

\* Put::attr
PutAttr(p, A, repr, draw) ==
    LET h == Complete(p.jr, A, repr, p.ident, StateUuid(p.type, p.content, draw))
        name == IF A = "Name" THEN p.type ELSE "none"
    IN  [p EXCEPT !.attrs[TypeBits(A)] = h,
                  !.jr = JournalLog(@, h, Handle(A, name, NoAttrs))]

\* the bits of a plugin type's name
NameBits(T) ==
    CASE T = "BincodePlugin" -> <<0, 1>>
      [] T = "NilPlugin"     -> <<1, 0>>
      [] T = "RandomPlugin"  -> <<1, 1>>

\* Thunk::state_uuid: the plugin reference, then "Thunk"
ThunkUuid(T) == Uuid(Crc(NameBits(T) \o <<1>>), 0)

\* Name::state_uuid
NameUuid(T) == Uuid(Crc(NameBits(T)), 0)

\* MustLoad::must_load
MustLoad(p, d) ==
    PutAttr(PutAttr(p, "Thunk", ThunkUuid(p.type), d["Thunk"]),
            "Name", NameUuid(p.type), d["Name"])

\* Put::commit, up to the handle: the labels are committed and linked into
\* the attributes, then the attributes are committed
PutCommit(p, d) ==
    LET lres  == StateUuid(p.type, p.content, d["Labels"])
        lab   == Folded(p.jr, "Labels", LabelsUuid(p.labels), p.ident, lres)
        jr1   == JournalLog(p.jr, lab.commit, Handle("Labels", "none", NoAttrs))
        attrs == [p.attrs EXCEPT ![TypeBits("Labels")] = lab.commit]
        fres  == StateUuid(p.type, p.content, d["Attributes"])
        fin   == Folded(jr1, "Attributes", AttributesUuid(attrs), p.ident, fres)
        jr2   == JournalLog(jr1, fin.commit, Handle("Attributes", "none", attrs))
    IN  [commit |-> fin.commit, lab |-> lab, fin |-> fin, jr |-> jr2, attrs |-> attrs]

NoItem == [type |-> "none", content |-> <<>>]

NameParts == 4

Paths == [name : StoreTypes, commit : Words \cup {NoCommit}]

\* Name::path
NamePath(T) == [name |-> T, commit |-> NoCommit]

\* name.path().join(hex::encode(commit))
AddressPath(T, k) == [name |-> T, commit |-> k]

\* Path::ancestors().count()
PathAncestors(path) == NameParts + 1 + (IF path.commit = NoCommit THEN 0 ELSE 1)

\* the entry of puts for a put that was committed
PutEntry(op, p, r) ==
    [op |-> op, type |-> p.type, content |-> p.content, ident |-> p.ident,
     labels |-> p.labels, commit |-> r.commit, lab |-> r.lab, fin |-> r.fin,
     thunked |-> p.attrs[TypeBits("Thunk")], named |-> p.attrs[TypeBits("Name")],
     attrs |-> r.attrs]

RepoInit ==
    /\ items = [k \in Words |-> NoItem]
    /\ journal = [k \in Words |-> NoHandle]
    /\ plugins = [path \in Paths |-> NoCommit]
    /\ puts = <<>>

\* store.put(plugin).label(..).ident(i).commit()
PutIdentCommit(T, c, labels, i, d) ==
    /\ Len(puts) < MaxPuts
    /\ \E p \in {PutIdent(PutLabel(StorePut(journal, T, c), labels), i)} :
       \E r \in {PutCommit(p, d)} :
           /\ items' = [items EXCEPT ![r.commit] = [type |-> T, content |-> c]]
           /\ journal' = r.jr
           /\ puts' = Append(puts, PutEntry("put", p, r))
    /\ UNCHANGED plugins
    /\ UNCHANGED <<data, log, threadVars, callVars, eventVars, moreVars>>

LoadKeepsName(pl, T, k) == [pl EXCEPT ![AddressPath(T, k)] = k]

\* the two inserts of State::load
LoadInsert(pl, T, k) == [pl EXCEPT ![NamePath(T)] = k, ![AddressPath(T, k)] = k]

\* the Attributes of the handle that State::load keeps at its two paths
HeadInsert(hd, T, k, attrs) ==
    [hd EXCEPT ![NamePath(T)] = attrs, ![AddressPath(T, k)] = attrs]

\* plugins.insert(address, ..).filter(|_| disallow_commit_conflicts): the
\* todo!() panics when the address was registered
LoadResult(pl, T, k, dis) ==
    IF pl[AddressPath(T, k)] # NoCommit /\ dis THEN "panic" ELSE "ok"

\* State::load, with no labels
Load(T, c, d) ==
    /\ Len(puts) < MaxPuts
    /\ loadRes # "panic"
    /\ \E p \in {MustLoad(StorePut(journal, T, c), d)} :
       \E r \in {PutCommit(p, d)} :
           /\ items' = [items EXCEPT ![r.commit] = [type |-> T, content |-> c]]
           /\ journal' = r.jr
           /\ plugins' = LoadInsert(plugins, T, r.commit)
           /\ heads' = HeadInsert(heads, T, r.commit, r.attrs)
           /\ loadRes' = LoadResult(plugins, T, r.commit, disallow)
           /\ puts' = Append(puts, PutEntry("load", p, r))
    /\ UNCHANGED <<disallow, cloned, cloneItems, lookup>>
    /\ UNCHANGED <<data, log, threadVars, callVars, eventVars>>
    /\ UNCHANGED <<journalVars, cellVars, envVars, lateVars>>

\* State::find_plugin
FindPlugin(path) == IF plugins[path] = NoCommit THEN NoItem ELSE items[plugins[path]]

\* Item::attributes, then get::<Name>: the name, "none" without a Name
\* attribute; the expect panics when the journal holds another handle
ItemName(k) ==
    IF journal[k].repr # "Attributes" THEN "panic"
    ELSE IF journal[k].attrs[TypeBits("Name")] = NoCommit THEN "none"
    ELSE IF journal[journal[k].attrs[TypeBits("Name")]].repr # "Name" THEN "none"
    ELSE journal[journal[k].attrs[TypeBits("Name")]].name

\* State::addresses
Addresses ==
    {[name |-> ItemName(plugins[path]), commit |-> plugins[path]] :
        path \in {q \in Paths : /\ plugins[q] # NoCommit
                                /\ PathAncestors(q) > 5
                                /\ items[plugins[q]] # NoItem
                                /\ ItemName(plugins[q]) # "none"}}

PutNext ==
    \E T \in StoreTypes, c \in Contents, labels \in LabelSets, i \in Idents :
        \E d \in DrawsFor(T, {"Labels", "Attributes"}) : PutIdentCommit(T, c, labels, i, d)

LoadNext ==
    \E T \in StoreTypes, c \in Contents :
        \E d \in DrawsFor(T, DrawSites) : Load(T, c, d)

(***************************************************************************)
(* runir: the Journal under concurrent log and get.  LogState is behind    *)
(* one mutex: recorded is the map, snapshot an Arc of a copy of it.  arcs  *)
(* is the heap of the Arc'ed maps, jsnap the one LogState.snapshot points  *)
(* to.  A lock section is one step.                                        *)
(***************************************************************************)
JKeys == {1, 2}

\* the handles the threads log: the representation is what tells them apart
JHandles == {Handle("Labels", "none", NoAttrs), Handle("Attributes", "none", NoAttrs)}

NoLog == [op |-> "idle", key |-> 0, handle |-> NoHandle]

NoHeld == [arc |-> 0, val |-> <<>>]

\* LogState::default
JournalInit ==
    /\ jrec = [k \in JKeys |-> NoHandle]
    /\ arcs = <<[k \in JKeys |-> NoHandle]>>
    /\ jsnap = 1
    /\ jpc = [t \in Threads |-> NoLog]
    /\ jheld = [t \in Threads |-> NoHeld]
    /\ jgot = {}
    /\ jpast = {[k \in JKeys |-> NoHandle]}
    /\ jcalls = 0

RecordInPlace(heap, at, rec) == [arcs |-> [heap EXCEPT ![at] = rec], snap |-> at]

\* state.snapshot = LogSnapshot(Arc::new(state.recorded.clone()))
RecordSnapshot(heap, at, rec) == [arcs |-> Append(heap, rec), snap |-> Len(heap) + 1]

\* Log::record up to the test of its snapshot: a recorded commit returns
LogBegin(t, k, h) ==
    /\ jpc[t] = NoLog
    /\ jcalls < MaxRecords
    /\ jcalls' = jcalls + 1
    /\ jpc' = IF arcs[jsnap][k] # NoHandle THEN jpc
              ELSE [jpc EXCEPT ![t] = [op |-> "record", key |-> k, handle |-> h]]
    /\ UNCHANGED <<jrec, arcs, jsnap, jheld, jgot, jpast>>
    /\ UNCHANGED <<baseVars, cellVars, stVars, envVars, lateVars>>

\* Log::record under the lock: insert, then a new snapshot
LogInsert(t) ==
    /\ jpc[t].op = "record"
    /\ LET rec == [jrec EXCEPT ![jpc[t].key] = jpc[t].handle]
           s   == RecordSnapshot(arcs, jsnap, rec)
       IN  /\ jrec' = rec
           /\ arcs' = s.arcs
           /\ jsnap' = s.snap
           /\ jpast' = jpast \cup {rec}
    /\ jpc' = [jpc EXCEPT ![t] = NoLog]
    /\ UNCHANGED <<jheld, jgot, jcalls>>
    /\ UNCHANGED <<baseVars, cellVars, stVars, envVars, lateVars>>

\* Journal::get: the snapshot of this moment, then the lookup
JournalGet(t, k) ==
    /\ jpc[t] = NoLog
    /\ jgot' = IF arcs[jsnap][k] # NoHandle THEN jgot \cup {k} ELSE jgot
    /\ UNCHANGED <<jrec, arcs, jsnap, jpc, jheld, jpast, jcalls>>
    /\ UNCHANGED <<baseVars, cellVars, stVars, envVars, lateVars>>

\* Journal::logs: the reader keeps the Arc, val is the map it saw
JournalLogs(t) ==
    /\ jpc[t] = NoLog
    /\ jheld' = [jheld EXCEPT ![t] = [arc |-> jsnap, val |-> arcs[jsnap]]]
    /\ UNCHANGED <<jrec, arcs, jsnap, jpc, jgot, jpast, jcalls>>
    /\ UNCHANGED <<baseVars, cellVars, stVars, envVars, lateVars>>

JournalNext ==
    \/ \E t \in Threads, k \in JKeys, h \in JHandles : LogBegin(t, k, h)
    \/ \E t \in Threads : LogInsert(t)
    \/ \E t \in Threads, k \in JKeys : JournalGet(t, k)
    \/ \E t \in Threads : JournalLogs(t)

(***************************************************************************)
(* runir: the cell of an Item.  Clones of an Item share the cell.  borrow  *)
(* and borrow_mut take the write lock of the cell, cast the resource to a  *)
(* reference and return it; the guard is a local of the function and is    *)
(* dropped when it returns.                                                *)
(***************************************************************************)
CellInit ==
    /\ guard = "none"
    /\ refs = [t \in Threads |-> "none"]
    /\ wrote = "none"

\* borrow_mut::<T> / borrow::<T> with T the stored type: self.cell.write()
BorrowLock(t, kind) ==
    /\ refs[t] = "none"
    /\ guard = "none"
    /\ guard' = t
    /\ refs' = [refs EXCEPT ![t] = IF kind = "mut" THEN "lock_mut" ELSE "lock"]
    /\ UNCHANGED wrote
    /\ UNCHANGED <<baseVars, journalVars, stVars, envVars, lateVars>>

\* the function returns the reference it cast; its guard is dropped
BorrowReturn(t) ==
    /\ guard = t
    /\ guard' = "none"
    /\ refs' = [refs EXCEPT ![t] = IF @ = "lock_mut" THEN "mut" ELSE "shared"]
    /\ UNCHANGED wrote
    /\ UNCHANGED <<baseVars, journalVars, stVars, envVars, lateVars>>

\* the caller writes the plugin through its &mut T
RefWrite(t) ==
    /\ refs[t] = "mut"
    /\ wrote' = t
    /\ UNCHANGED <<guard, refs>>
    /\ UNCHANGED <<baseVars, journalVars, stVars, envVars, lateVars>>

\* the caller is done with the reference
RefDrop(t) ==
    /\ refs[t] \in {"mut", "shared"}
    /\ refs' = [refs EXCEPT ![t] = "none"]
    /\ UNCHANGED <<guard, wrote>>
    /\ UNCHANGED <<baseVars, journalVars, stVars, envVars, lateVars>>

CellNext ==
    \/ \E t \in Threads, kind \in {"mut", "shared"} : BorrowLock(t, kind)
    \/ \E t \in Threads : BorrowReturn(t)
    \/ \E t \in Threads : RefWrite(t)
    \/ \E t \in Threads : RefDrop(t)

(***************************************************************************)
(* reality: a State and a clone of it.  State::clone copies the Store's    *)
(* map of items and shares the plugin map and the journal.                 *)
(***************************************************************************)
\* plugin types loaded in the runs of a State
StateTypes == {"BincodePlugin", "NilPlugin"}

StateContents == {<<0, 0, 0, 0, 0>>, <<0, 0, 0, 0, 1>>}

NoLookup == [on |-> "none", api |-> "none", path |-> NamePath("BincodePlugin"), res |-> "none"]

\* State::new
StInit ==
    /\ disallow = FALSE
    /\ loadRes = "none"
    /\ cloned = FALSE
    /\ cloneItems = [k \in Words |-> NoItem]
    /\ heads = [path \in Paths |-> NoAttrs]
    /\ lookup = NoLookup

\* HandlerThunk::state_uuid: target name, plugin reference, "HandlerThunk"
HandlerThunkUuid(T) == Uuid(Crc(<<1>> \o NameBits(T) \o <<1, 0>>), 0)

\* MustLoadHandler::must_load
MustLoadHandler(p, d) ==
    PutAttr(PutAttr(PutAttr(p, "Thunk", ThunkUuid(p.type), d["Thunk"]),
                    "HandlerThunk", HandlerThunkUuid(p.type), d["HandlerThunk"]),
            "Name", NameUuid(p.type), d["Name"])

\* State::disallow_commit_conflicts
DisallowCommitConflicts(b) ==
    /\ loadRes # "panic"
    /\ disallow # b
    /\ disallow' = b
    /\ UNCHANGED <<loadRes, cloned, cloneItems, heads, lookup>>
    /\ UNCHANGED <<baseVars, journalVars, cellVars, envVars, lateVars>>

\* State::load_handler, with no labels
LoadHandler(T, c, d) ==
    /\ Len(puts) < MaxPuts
    /\ loadRes # "panic"
    /\ \E p \in {MustLoadHandler(StorePut(journal, T, c), d)} :
       \E r \in {PutCommit(p, d)} :
           /\ items' = [items EXCEPT ![r.commit] = [type |-> T, content |-> c]]
           /\ journal' = r.jr
           /\ plugins' = LoadInsert(plugins, T, r.commit)
           /\ heads' = HeadInsert(heads, T, r.commit, r.attrs)
           /\ puts' = Append(puts, PutEntry("load_handler", p, r))
    /\ loadRes' = "ok"
    /\ UNCHANGED <<disallow, cloned, cloneItems, lookup>>
    /\ UNCHANGED <<brokerVars, callVars, eventVars, journalVars, cellVars, envVars, lateVars>>

\* State::clone: the clone is kept, loads go on in the State
StateClone ==
    /\ loadRes # "panic"
    /\ ~cloned
    /\ cloned' = TRUE
    /\ cloneItems' = items
    /\ UNCHANGED <<disallow, loadRes, heads, lookup>>
    /\ UNCHANGED <<baseVars, journalVars, cellVars, envVars, lateVars>>

\* Store::item of the State or of its clone
StoreItem(on, k) == IF on = "clone" THEN cloneItems[k] ELSE items[k]

\* Attributes::get::<A>: the commit the map holds for A, cast to A
AttrGet(attrs, A) ==
    /\ attrs[TypeBits(A)] # NoCommit
    /\ journal[attrs[TypeBits(A)]].repr = A

\* State::event: the path is registered, the Store has the item and the
\* handle's Attributes have a Thunk
Resolves(on, path) ==
    /\ plugins[path] # NoCommit
    /\ StoreItem(on, plugins[path]) # NoItem
    /\ AttrGet(heads[path], "Thunk")

EventTokensAlways(tk, ap, found) ==
    IF ap = "event" THEN ChildToken(tk, Root, "event")
    ELSE ChildToken(ChildToken(tk, Root, "event"), Len(tk) + 1, "fork")

\* self.cancel.child_token() of State::event, and the fork of State::spawn
EventTokens(tk, ap, found) ==
    IF ~found THEN tk
    ELSE IF ap = "event" THEN ChildToken(tk, Root, "event")
    ELSE ChildToken(ChildToken(tk, Root, "event"), Len(tk) + 1, "fork")

\* the paths that are looked up: the name paths, and the registered paths
LookupPaths == {NamePath(T) : T \in StateTypes} \cup {q \in Paths : plugins[q] # NoCommit}

\* State::event, and State::spawn (State::call awaits what spawn returns);
\* a run makes one event
StateEventAt(on, ap, path) ==
    /\ loadRes # "panic"
    /\ lookup = NoLookup
    /\ on = "clone" => cloned
    /\ path \in LookupPaths
    /\ Len(tokens) + 2 <= MaxTokens
    /\ lookup' = [on |-> on, api |-> ap, path |-> path,
                  res |-> IF Resolves(on, path) THEN "Ok" ELSE "PluginNotFound"]
    /\ tokens' = EventTokens(tokens, ap, Resolves(on, path))
    /\ UNCHANGED <<disallow, loadRes, cloned, cloneItems, heads>>
    /\ UNCHANGED <<data, attached, hthunk, attach, loaded, api, epc, hpc, ptask, ctask,
                   hres, result, returned, etok, htok, polled, lastPoll, cancelAt, trace>>
    /\ UNCHANGED <<threadVars, log, callVars, repoVars, journalVars, cellVars, envVars, lateVars>>

StateNext ==
    \/ \E T \in StateTypes, c \in StateContents :
          \E d \in DrawsFor(T, DrawSites) : Load(T, c, d)
    \/ \E T \in StateTypes, c \in StateContents :
          \E d \in DrawsFor(T, DrawSites \cup {"HandlerThunk"}) : LoadHandler(T, c, d)
    \/ StateClone
    \/ \E on \in {"state", "clone"}, ap \in {"event", "spawn"}, path \in Paths :
          StateEventAt(on, ap, path)

ConflictNext ==
    \/ \E T \in StateTypes, c \in Contents :
          \E d \in DrawsFor(T, DrawSites) : Load(T, c, d)
    \/ \E T \in StateTypes, c \in Contents :
          \E d \in DrawsFor(T, DrawSites \cup {"HandlerThunk"}) : LoadHandler(T, c, d)
    \/ \E b \in BOOLEAN : DisallowCommitConflicts(b)

(***************************************************************************)
(* kioto: the environment builder.  A directory is the map from the stems  *)
(* of its entries to what each entry is; the target root is the set of     *)
(* the files written under it.                                             *)
(***************************************************************************)
EventNames == {"e1", "e2", "e3"}

NameOrder(n) == CASE n = "e1" -> 1 [] n = "e2" -> 2 [] OTHER -> 3

\* BTreeMap::iter: the least key of a set of keys
FirstName(S) == CHOOSE n \in S : \A m \in S : NameOrder(n) <= NameOrder(m)

\* the maps with at most MaxEntries keys
EntryMaps(kinds) ==
    UNION {[S -> kinds] : S \in {Q \in SUBSET EventNames : Cardinality(Q) <= MaxEntries}}

\* what an entry of source_root/<label> is: a .toml file that holds a valid
\* -kt-build table, one without the table, one whose table does not parse as
\* build metadata, one that is no toml document, one that cannot be read as
\* text, a file with another extension, and an entry that is no file
DirKinds == {"built", "no_table", "bad_build", "no_document", "unreadable",
             "other_ext", "no_file"}

SourceDirs == [listed : BOOLEAN, entries : EntryMaps(DirKinds)]

IoError(kind, msg) == [res |-> "Err", kind |-> kind, msg |-> msg]

IoOk == [res |-> "Ok", kind |-> "none", msg |-> "none"]

\* the keys of copy_tasks when the loop of build_env has ended
CopyTasks(dir) == {n \in DOMAIN dir.entries : dir.entries[n] = "built"}

BuildErrorNone(dir) == IoOk

\* the error build_env returns before it writes, IoOk if it goes on to write
BuildError(dir) ==
    IF ~dir.listed THEN IoError("NotFound", "read_dir")
    ELSE IF \E n \in DOMAIN dir.entries : dir.entries[n] = "unreadable"
    THEN IoError("Other", "read_to_string")
    ELSE IF CopyTasks(dir) = {}
    THEN IoError("InvalidData", "No valid files were found")
    ELSE IoOk

\* create_dir_all, the write of config.toml and the copies
BuildWrites(dir) ==
    IF BuildError(dir) # IoOk THEN {}
    ELSE {<<".", "config.toml">>} \cup {<<"etc", n>> : n \in CopyTasks(dir)}

\* what a plugin entry of config.toml leads to in load_toml: a file that is
\* loaded, a plugin name that does not parse, a file that is not there, one
\* that is no toml document, one whose plugin has no loader in the Env, one
\* that does not deserialize into the plugin type
FileKinds == {"valid", "bad_name", "missing", "no_document", "no_loader", "bad_deser"}

EnvConfigs == [found : BOOLEAN, entries : EntryMaps(FileKinds)]

\* PluginConfig::load and load_toml for one entry: DocumentMut::from_str and
\* Env::load are unwrapped
LoadToml(kind) ==
    CASE kind = "valid"    -> "Ok"
      [] kind = "bad_name" -> "Err"
      [] kind = "missing"  -> "Err"
      [] OTHER             -> "panic"

\* EngineConfig::load: the entries in key order, up to the first that fails
RECURSIVE ConfigLoad(_, _, _)
ConfigLoad(entries, rest, done) ==
    IF rest = {} THEN [res |-> "Ok", loaded |-> done]
    ELSE LET n == FirstName(rest)
             r == LoadToml(entries[n])
         IN  IF r = "Ok" THEN ConfigLoad(entries, rest \ {n}, done \cup {n})
             ELSE [res |-> r, loaded |-> done]

\* Builder::load_env
LoadEnvResult(conf) ==
    IF ~conf.found THEN [res |-> "Err", loaded |-> {}]
    ELSE ConfigLoad(conf.entries, DOMAIN conf.entries, {})

\* the fields a template map declares, and the fields of an input
FieldNames == {"url", "body"}

\* the value of a field in the serialized plugin: a string that compiles as
\* a template, a string that does not, a value that is no string or absent
DocKinds == {"template", "bad_template", "no_string"}

\* the entry of the input data for a field
DataKinds == {"table", "scalar", "absent"}

FieldOrder(k) == IF k = "body" THEN 1 ELSE 2

FirstField(S) == CHOOSE k \in S : \A m \in S : FieldOrder(k) <= FieldOrder(m)

Applies == [format : {"toml", "json"}, fields : SUBSET FieldNames,
            doc : [FieldNames -> DocKinds], data : [FieldNames -> DataKinds]]

ApplyOut(res, kind, field, rendered) ==
    [res |-> res, kind |-> kind, field |-> field, rendered |-> rendered]

\* data[k] of a toml::Table or a serde_json::Map with no key k
DataIndex(k, rendered) ==
    ApplyOut("panic", "none", k, rendered)

\* TemplateMap::apply_toml / apply_json: the declared fields in key order
RECURSIVE ApplyFields(_, _, _)
ApplyFields(a, rest, rendered) ==
    IF rest = {} THEN ApplyOut("Ok", "none", "none", rendered)
    ELSE LET k == FirstField(rest)
         IN  IF a.doc[k] = "no_string" THEN ApplyFields(a, rest \ {k}, rendered)
             ELSE IF a.doc[k] = "bad_template"
             THEN ApplyOut("Err", "InvalidInput", k, rendered)
             ELSE IF a.data[k] = "absent" THEN DataIndex(k, rendered)
             ELSE IF a.data[k] = "scalar"
             THEN ApplyOut("Err", "NotFound", k, rendered)
             ELSE ApplyFields(a, rest \ {k}, rendered \cup {k})

ApplyTemplate(a) == ApplyFields(a, a.fields, {})

NoEnvOp == [op |-> "none", input |-> <<>>, out |-> IoOk, before |-> {}]

EnvInit ==
    /\ envOp = NoEnvOp
    /\ targetRoot = {}
    /\ registered = {}

\* Builder::build_env(source_root, target_root); a run makes one call on an
\* environment
BuildEnv(dir) ==
    /\ envOp.op = "none"
    /\ envOp' = [op |-> "build_env", input |-> dir, out |-> BuildError(dir),
                 before |-> targetRoot]
    /\ targetRoot' = targetRoot \cup BuildWrites(dir)
    /\ UNCHANGED registered
    /\ UNCHANGED <<baseVars, journalVars, cellVars, stVars, lateVars>>

\* Builder::load_env(root): the plugins are registered in a new Env
LoadEnv(conf) ==
    /\ envOp.op = "none"
    /\ envOp' = [op |-> "load_env", input |-> conf,
                 out |-> [res |-> LoadEnvResult(conf).res], before |-> targetRoot]
    /\ registered' = LoadEnvResult(conf).loaded
    /\ UNCHANGED targetRoot
    /\ UNCHANGED <<baseVars, journalVars, cellVars, stVars, lateVars>>

\* TemplateData::apply(plugin)
Apply(a) ==
    /\ envOp.op = "none"
    /\ envOp' = [op |-> "apply", input |-> a, out |-> ApplyTemplate(a), before |-> targetRoot]
    /\ UNCHANGED <<targetRoot, registered>>
    /\ UNCHANGED <<baseVars, journalVars, cellVars, stVars, lateVars>>

EnvNext ==
    \/ \E dir \in SourceDirs : BuildEnv(dir)
    \/ \E conf \in EnvConfigs : LoadEnv(conf)
    \/ \E a \in Applies : Apply(a)

(***************************************************************************)
(* reality: plugin names.  A string is the sequence of its characters.     *)
(* The parts of a Name come from the segments of a Rust type name and a    *)
(* semver Version; they hold no '/', '.', '@' and no white space, so the   *)
(* trim of Delimitted::next leaves them as they are.                       *)
(***************************************************************************)
\* the parts of names: identifiers of one or two characters
NameSegments == UNION {[1..k -> {"a", "b"}] : k \in 1..MaxChars}

\* major, minor, patch
Versions == [1..3 -> {0, 1}]

\* Display of a semver Version
VersionString(v) ==
    <<IF v[1] = 0 THEN "0" ELSE "1", ".", IF v[2] = 0 THEN "0" ELSE "1", ".",
      IF v[3] = 0 THEN "0" ELSE "1">>

\* the Some arm of Name::new: the path is package/version/module/plugin
NameNew(package, module, plugin, version) ==
    [package |-> package, version |-> version, module |-> module, plugin |-> plugin,
     path |-> <<package, VersionString(version), module, plugin>>]

Names == {NameNew(pk, md, pl, v) : pk \in NameSegments, md \in NameSegments,
                                    pl \in NameSegments, v \in Versions}

\* Display for Name: "{package}/{module}.{plugin}", "@{version}" when alternate
DisplayShort(n, alternate) ==
    n.package \o <<"/">> \o n.module \o <<".">> \o n.plugin

Display(n, alternate) ==
    n.package \o <<"/">> \o n.module \o <<".">> \o n.plugin
    \o (IF alternate THEN <<"@">> \o VersionString(n.version) ELSE <<>>)

\* Delimitted<DELIM, String, 2>: splitn(2, DELIM), the parts next() yields
SplitN(s, delim) ==
    IF \E i \in 1..Len(s) : s[i] = delim
    THEN LET i == CHOOSE i \in 1..Len(s) : s[i] = delim /\ \A j \in 1..(i - 1) : s[j] # delim
         IN  <<SubSeq(s, 1, i - 1), SubSeq(s, i + 1, Len(s))>>
    ELSE <<s>>

\* Version::from_str(..).ok(): <<>> when the string is no version
VersionFromStr(s) ==
    LET num(c) == IF c = <<"0">> THEN 0 ELSE IF c = <<"1">> THEN 1 ELSE -1
        a == SplitN(s, ".")
        b == IF Len(a) = 2 THEN SplitN(a[2], ".") ELSE <<>>
    IN  IF Len(b) = 2 /\ num(a[1]) >= 0 /\ num(b[1]) >= 0 /\ num(b[2]) >= 0
        THEN <<num(a[1]), num(b[1]), num(b[2])>>
        ELSE <<>>

NoName == [package |-> <<>>, version |-> <<0, 0, 0>>, module |-> <<>>, plugin |-> <<>>,
           path |-> <<>>]

\* LATEST_VERSION
LatestVersion == <<0, 0, 0>>

\* utils::parse_name
ParseName(name) ==
    LET Incomplete == [res |-> "IncompletePluginName", name |-> NoName]
        Named(pk, mp, v) ==
            IF Len(SplitN(mp, ".")) = 2
            THEN [res |-> "Ok", name |-> NameNew(pk, SplitN(mp, ".")[1], SplitN(mp, ".")[2], v)]
            ELSE Incomplete
        it == SplitN(name, "/")
    IN  IF Len(it) < 2 THEN Incomplete
        ELSE IF \E i \in 1..Len(name) : name[i] = "@"
        THEN LET ref == SplitN(it[2], "@")
             IN  IF Len(ref) = 2 /\ VersionFromStr(ref[2]) # <<>>
                 THEN Named(it[1], ref[1], VersionFromStr(ref[2]))
                 ELSE Incomplete
        ELSE Named(it[1], it[2], LatestVersion)

NoNameOp == [n |-> NoName, form |-> "none", input |-> <<>>,
             out |-> [res |-> "none", name |-> NoName]]

\* parse_name(&n.full_plugin_ref()) or parse_name(&n.plugin_ref())
ParseRef(full) ==
    /\ nameOp.form = "none"
    /\ nameOp' = [nameOp EXCEPT !.form = IF full THEN "full" ELSE "short",
                                !.input = Display(nameOp.n, full),
                                !.out = ParseName(Display(nameOp.n, full))]
    /\ UNCHANGED <<baseVars, journalVars, cellVars, stVars, envVars, revs, fcall, restVars>>

NameNext == \E full \in BOOLEAN : ParseRef(full)

(***************************************************************************)
(* reality: calls that mutate the plugin.  Every Put::commit makes a new   *)
(* Item with a cell of its own, so a cell is known by the number of the    *)
(* put that made it; cell 0 stands for the cells no Store holds.  revs     *)
(* counts the mutations a cell has seen.                                   *)
(***************************************************************************)
\* store.items.insert(commit, Item::new(..)): the cell of the Item the Store
\* holds at a commit is the one of the last put of that commit
ItemCell(ps, k) ==
    IF \E i \in 1..Len(ps) : ps[i].commit = k
    THEN CHOOSE i \in 1..Len(ps) :
            ps[i].commit = k /\ \A j \in (i + 1)..Len(ps) : ps[j].commit # k
    ELSE 0

ForkItemDetached(cell) == 0

\* Plugin::fork: item.clone(), the clone shares the cell
ForkItem(cell) == cell

NoFork == [path |-> NamePath("BincodePlugin"), commit |-> NoCommit, cell |-> 0,
           from |-> 0, calls |-> 0, running |-> FALSE]

\* State::spawn(path): the event of the registered plugin, forked
Spawn(path) ==
    /\ loadRes # "panic"
    /\ ~fcall.running
    /\ fcall.calls < MaxCalls
    /\ Resolves("state", path)
    /\ fcall' = [path |-> path, commit |-> plugins[path],
                 cell |-> ForkItem(ItemCell(puts, plugins[path])),
                 from |-> ItemCell(puts, plugins[path]),
                 calls |-> fcall.calls + 1, running |-> TRUE]
    /\ UNCHANGED revs
    /\ UNCHANGED <<baseVars, journalVars, cellVars, stVars, envVars, nameOp, restVars>>

\* the task of Bind::work_mut: call.update() borrows the plugin of the
\* call's item mutably and the call-fn changes it; the call completes
WorkMut ==
    /\ fcall.running
    /\ revs' = [revs EXCEPT ![fcall.cell] = @ + 1]
    /\ fcall' = [fcall EXCEPT !.running = FALSE]
    /\ UNCHANGED <<baseVars, journalVars, cellVars, stVars, envVars, nameOp, restVars>>

\* find_plugin(path), then borrow: the mutations the plugin has seen
Borrow(path) == revs[ItemCell(puts, plugins[path])]

ForkNext ==
    \/ \E T \in StateTypes, c \in StateContents :
          \E d \in DrawsFor(T, DrawSites) : Load(T, c, d)
    \/ \E path \in Paths : Spawn(path)
    \/ WorkMut

(***************************************************************************)
(* kioto: looking up the events of an engine Config.  Config::load keeps   *)
(* the address of each plugin under the key it has in config.toml (the     *)
(* stem of the source file); configure_event looks the names of an         *)
(* EventConfig up.  A name is the sequence of its characters; the address  *)
(* loaded under a key is told apart by the key.                            *)
(***************************************************************************)
Letters == {"a", "A", "b"}

\* char::to_lowercase on these letters
LowerChar(ch) == IF ch = "A" THEN "a" ELSE ch

\* str::to_lowercase
ToLowercase(str) == [i \in DOMAIN str |-> LowerChar(str[i])]

\* event and handler names
ConfigNames == UNION {[1..k -> Letters] : k \in 1..MaxNameLen}

\* Option::None of EventConfig.handler
NoHandlerName == <<>>

SplitKeepsCase(event, handler) == [event |-> event, handler |-> handler]

\* EventConfig::split_for_lookup
SplitForLookup(event, handler) ==
    [event |-> ToLowercase(event),
     handler |-> IF handler = NoHandlerName THEN NoHandlerName ELSE ToLowercase(handler)]

NoLoaded == [plugins |-> {}, handlers |-> {}]

NoCfgOp == [event |-> <<>>, handler |-> <<>>, res |-> "none", found |-> <<>>,
            foundHandler |-> <<>>]

\* Config::event / Config::handler: get(name) on the map of the loaded
\* addresses, PluginNotFound for None
ConfigGet(keys, name) ==
    IF name \in keys THEN [res |-> "Ok", key |-> name]
    ELSE [res |-> "PluginNotFound", key |-> <<>>]

\* Config::configure_event; the loaded handlers handle the plugins loaded
ConfigureEvent(cfg, event, handler) ==
    LET l == SplitForLookup(event, handler)
        e == ConfigGet(cfg.plugins, l.event)
        h == ConfigGet(cfg.handlers, l.handler)
    IN  IF e.res # "Ok" THEN [res |-> e.res, found |-> <<>>, foundHandler |-> <<>>]
        ELSE IF l.handler = NoHandlerName
             THEN [res |-> "Ok", found |-> e.key, foundHandler |-> <<>>]
        ELSE IF h.res # "Ok" THEN [res |-> h.res, found |-> <<>>, foundHandler |-> <<>>]
        ELSE [res |-> "Ok", found |-> e.key, foundHandler |-> h.key]

\* Config::load with every entry of config.toml loading: one address per key
EngineConfigLoad(ps, hs) ==
    /\ cfgLoaded = NoLoaded
    /\ Cardinality(ps) + Cardinality(hs) <= MaxEntries
    /\ ps \cup hs # {}
    /\ cfgLoaded' = [plugins |-> ps, handlers |-> hs]
    /\ UNCHANGED <<cfgOp, startCancelled, haddr, oper>>
    /\ UNCHANGED <<baseVars, journalVars, cellVars, stVars, envVars, nameOp, revs, fcall>>

\* Env::get_event(&EventConfig { event, handler })
GetEvent(event, handler) ==
    /\ cfgLoaded # NoLoaded
    /\ LET r == ConfigureEvent(cfgLoaded, event, handler)
       IN  cfgOp' = [event |-> event, handler |-> handler, res |-> r.res,
                     found |-> r.found, foundHandler |-> r.foundHandler]
    /\ UNCHANGED <<cfgLoaded, startCancelled, haddr, oper>>
    /\ UNCHANGED <<baseVars, journalVars, cellVars, stVars, envVars, nameOp, revs, fcall>>

\* the key sets of the maps of a config.toml
ConfigKeys == {S \in SUBSET ConfigNames : Cardinality(S) <= MaxEntries}

LookupNext ==
    \/ \E ps \in ConfigKeys, hs \in ConfigKeys : EngineConfigLoad(ps, hs)
    \/ \E event \in ConfigNames, handler \in ConfigNames \cup {NoHandlerName} :
          GetEvent(event, handler)

(***************************************************************************)
(* kioto: the Operation plugin.  execute_operation makes the events of its *)
(* list and defers a task that starts them one after the other, each       *)
(* inside with_cancel(ct).run, a select! over the start() of the fork and  *)
(* ct.cancelled().  The events are made by the State of the env loader:    *)
(* their tokens are no descendants of ct.  The caller awaits the Work of   *)
(* the task, which carries ct.                                             *)
(***************************************************************************)
\* select! polls its branches in an order drawn at random
SelectOrders == {"fut", "cancel"}

\* what the start() of an event resolves with
StartOutcomes == {"Ok", "PluginCallError"}

NoOperation == [n |-> 0, i |-> 0, child |-> "none", started |-> <<>>, late |-> 0,
                task |-> "none", cancelled |-> FALSE, polled |-> FALSE,
                result |-> "none", during |-> FALSE]

\* execute_operation with n events in the list that get_event finds: the
\* engine is built and the task is spawned by binding.defer
ExecuteOperation(n) ==
    /\ oper.task = "none"
    /\ oper' = [oper EXCEPT !.n = n, !.i = 1, !.task = IF n = 0 THEN "Ok" ELSE "running"]
    /\ UNCHANGED <<startCancelled, haddr, cfgLoaded, cfgOp>>
    /\ UNCHANGED <<baseVars, journalVars, cellVars, stVars, envVars, nameOp, revs, fcall>>

\* the task after on_complete(o)? of an event that resolved with o: the next
\* event of the list, or the end of the task
AfterEvent(t, o) ==
    IF o # "Ok" THEN [t EXCEPT !.task = o]
    ELSE IF t.i = t.n THEN [t EXCEPT !.task = "Ok", !.child = "none"]
    ELSE [t EXCEPT !.i = @ + 1, !.child = "none"]

\* the branch fut of the select!: the first poll of f.start() runs the thunk
\* of the fork, whose call-fn spawns the work of the event
PollStart(t) ==
    IF t.child = "none"
    THEN [t EXCEPT !.child = "running", !.started = Append(@, t.i),
                   !.late = IF t.cancelled THEN @ + 1 ELSE @]
    ELSE IF t.child = "running" THEN t
    ELSE AfterEvent(t, t.child)

\* the branch ct.cancelled()
PollCancelled(t) ==
    IF t.cancelled /\ t.task = "running" THEN [t EXCEPT !.task = "PluginCallCancelled"]
    ELSE t

\* the select! is resolved by the branch fut
FutReady(t) == t.child \in StartOutcomes

\* TaskCancelWrapper::run polled: a branch that is ready ends the select!
\* and the other one is not polled
RunSelect(t, first) ==
    IF first = "cancel"
    THEN IF t.cancelled THEN PollCancelled(t) ELSE PollStart(t)
    ELSE IF FutReady(t) THEN PollStart(t) ELSE PollCancelled(PollStart(t))

\* the task is polled: when it reaches a select!, and when a waker of the
\* select! was called (the event has resolved, ct was cancelled)
Select(first) ==
    /\ oper.task = "running"
    /\ oper.child # "running" \/ oper.cancelled
    /\ oper' = RunSelect(oper, first)
    /\ UNCHANGED <<startCancelled, haddr, cfgLoaded, cfgOp>>
    /\ UNCHANGED <<baseVars, journalVars, cellVars, stVars, envVars, nameOp, revs, fcall>>

\* the start() of the running event resolves
EventResolves(outcome) ==
    /\ oper.child = "running"
    /\ oper.task \in {"running", "aborted", "PluginCallCancelled"}
    /\ oper' = [oper EXCEPT !.child = outcome]
    /\ UNCHANGED <<startCancelled, haddr, cfgLoaded, cfgOp>>
    /\ UNCHANGED <<baseVars, journalVars, cellVars, stVars, envVars, nameOp, revs, fcall>>

\* ct.cancel()
OperationCancel ==
    /\ ~oper.cancelled
    /\ oper' = [oper EXCEPT !.cancelled = TRUE,
                        !.during = (oper.task = "running" /\ oper.result = "none")]
    /\ UNCHANGED <<startCancelled, haddr, cfgLoaded, cfgOp>>
    /\ UNCHANGED <<baseVars, journalVars, cellVars, stVars, envVars, nameOp, revs, fcall>>

\* the caller's await of the Operation: Work::poll of the deferred task
OperationPoll ==
    /\ oper.task # "none"
    /\ oper.result = "none"
    /\ ~oper.polled \/ oper.task # "running"
    /\ LET p == Poll(oper.cancelled, oper.task)
       IN  oper' = [oper EXCEPT !.polled = TRUE,
                           !.result = IF p.res = "Pending" THEN "none" ELSE p.res,
                           !.task = IF p.abort THEN Abort(oper.task) ELSE oper.task]
    /\ UNCHANGED <<startCancelled, haddr, cfgLoaded, cfgOp>>
    /\ UNCHANGED <<baseVars, journalVars, cellVars, stVars, envVars, nameOp, revs, fcall>>

OperationNext ==
    \/ \E n \in 0..MaxOpEvents : ExecuteOperation(n)
    \/ \E first \in SelectOrders : Select(first)
    \/ \E outcome \in StartOutcomes : EventResolves(outcome)
    \/ OperationCancel
    \/ OperationPoll

(***************************************************************************)
(* The state of the parts a run does not use                               *)
(***************************************************************************)
RestInit ==
    /\ startCancelled = FALSE
    /\ cfgLoaded = NoLoaded
    /\ cfgOp = NoCfgOp
    /\ oper = NoOperation

LateInit ==
    /\ nameOp = NoNameOp
    /\ revs = [i \in 0..MaxPuts |-> 0]
    /\ fcall = NoFork
    /\ RestInit
    /\ haddr = HandlerCommit

MoreInit == JournalInit /\ CellInit /\ StInit /\ EnvInit /\ LateInit

(***************************************************************************)
(* Specifications                                                          *)
(***************************************************************************)
\* an event that is not started
EventIdle ==
    /\ EventFresh
    /\ loaded = FALSE
    /\ api = "start"
    /\ tokens = ChildToken(<<RootToken>>, Root, "event")
    /\ etok = 2

\* threads calling send, receive and bind on one Broker
Init == BrokerInit /\ StoreInit /\ bnd = NoBind /\ RepoInit /\ MoreInit /\ EventIdle

Next == BrokerNext

Spec == Init /\ [][Next]_vars

\* one caller using Call::bind and the Bind, and a publisher
CallInitial == BrokerInit /\ StoreInit /\ bnd = NoBind /\ RepoInit /\ MoreInit /\ EventIdle

SpecCall == CallInitial /\ [][CallNext]_vars

\* one Event::start, with or without a handler, and a publisher
EventInitial == BrokerInit /\ StoreInit /\ bnd = NoBind /\ RepoInit /\ MoreInit /\ EventInit

SpecEvent == EventInitial /\ [][EventNext]_vars

\* an event with a handler attached by with_handler::<H>(address), the
\* address that of any Item of the State
AddressInitial ==
    /\ BrokerInit /\ StoreInit /\ bnd = NoBind /\ RepoInit
    /\ JournalInit /\ CellInit /\ StInit /\ EnvInit
    /\ nameOp = NoNameOp /\ revs = [i \in 0..MaxPuts |-> 0] /\ fcall = NoFork
    /\ RestInit
    /\ haddr \in Commits
    /\ attached = TRUE
    /\ hthunk = ItemType(TargetCommit)
    /\ EventUnstarted
    /\ loaded \in BOOLEAN
    /\ api \in {"start", "returns"}
    /\ tokens = ChildToken(<<RootToken>>, Root, "event")
    /\ etok = 2

SpecAddress == AddressInitial /\ [][EventNext]_vars

\* a fresh event: handlers are attached, then it is started
AttachInitial ==
    /\ BrokerInit /\ StoreInit /\ bnd = NoBind /\ RepoInit /\ MoreInit
    /\ EventFresh
    /\ loaded = TRUE
    /\ api = "start"
    /\ tokens = ChildToken(<<RootToken>>, Root, "event")
    /\ etok = 2

SpecAttach == AttachInitial /\ [][AttachNext]_vars

\* a State whose events are made, forked and cancelled
TokenInitial ==
    /\ BrokerInit /\ StoreInit /\ bnd = NoBind /\ RepoInit /\ MoreInit
    /\ EventFresh
    /\ loaded = FALSE
    /\ api = "start"
    /\ tokens = <<RootToken>>
    /\ etok = 0

SpecToken == TokenInitial /\ [][TokenNext]_vars

\* one event spawned with State::spawn runs while tokens are cancelled
CancelInitial == BrokerInit /\ StoreInit /\ bnd = NoBind /\ RepoInit /\ MoreInit /\ CancelInit

SpecCancel == CancelInitial /\ [][CancelNext]_vars

\* the runtime schedules every task that can make a step and polls every
\* future whose waker was called; a task's body may stay pending for ever
CancelProgress ==
    /\ WF_vars(\E outcome \in CallOutcomes : StartThunk(outcome))
    /\ WF_vars(FindHandler)
    /\ WF_vars(HandlerAwaitWork)
    /\ WF_vars(HandlerRebind)
    /\ WF_vars(\E outcome \in HandleOutcomes : HandlerHandle(outcome))
    /\ WF_vars(\E outcome \in CallOutcomes : HandlerCall(outcome))
    /\ WF_vars(HandlerAwaitCall)
    /\ WF_vars(Resolve)

SpecCancelFair == SpecCancel /\ CancelProgress

\* puts committed into one Store
PutInitial == BrokerInit /\ StoreInit /\ bnd = NoBind /\ RepoInit /\ MoreInit /\ EventIdle

SpecPut == PutInitial /\ [][PutNext]_vars

\* plugins loaded into one State
LoadInitial == BrokerInit /\ StoreInit /\ bnd = NoBind /\ RepoInit /\ MoreInit /\ EventIdle

SpecLoad == LoadInitial /\ [][LoadNext]_vars

\* threads logging to and reading from one Journal
JournalInitial == BrokerInit /\ StoreInit /\ bnd = NoBind /\ RepoInit /\ MoreInit /\ EventIdle

SpecJournal == JournalInitial /\ [][JournalNext]_vars

\* threads borrowing the plugin of one Item through their clones of it
CellInitial == BrokerInit /\ StoreInit /\ bnd = NoBind /\ RepoInit /\ MoreInit /\ EventIdle

SpecCell == CellInitial /\ [][CellNext]_vars

\* a State that loads plugins, is cloned, and makes events
StateInitial ==
    /\ BrokerInit /\ StoreInit /\ bnd = NoBind /\ RepoInit /\ MoreInit
    /\ EventFresh
    /\ loaded = FALSE
    /\ api = "start"
    /\ tokens = <<RootToken>>
    /\ etok = 0

SpecState == StateInitial /\ [][StateNext]_vars

\* a State that loads plugins with commit conflicts allowed or disallowed
ConflictInitial == BrokerInit /\ StoreInit /\ bnd = NoBind /\ RepoInit /\ MoreInit /\ EventIdle

SpecConflict == ConflictInitial /\ [][ConflictNext]_vars

\* one call on an environment builder, with the target root empty or holding
\* what an earlier build wrote
EnvInitial ==
    /\ BrokerInit /\ StoreInit /\ bnd = NoBind /\ RepoInit
    /\ JournalInit /\ CellInit /\ StInit
    /\ EventIdle
    /\ envOp = NoEnvOp
    /\ targetRoot \in {{}, {<<".", "config.toml">>, <<"etc", "e1">>}}
    /\ registered = {}
    /\ LateInit

SpecEnv == EnvInitial /\ [][EnvNext]_vars

\* a State that loads plugins and spawns calls that mutate them
ForkInitial ==
    /\ BrokerInit /\ StoreInit /\ bnd = NoBind /\ RepoInit /\ MoreInit
    /\ EventFresh
    /\ loaded = FALSE
    /\ api = "start"
    /\ tokens = <<RootToken>>
    /\ etok = 0

SpecFork == ForkInitial /\ [][ForkNext]_vars

\* a Name, and the parse of one of its references
NameInitial ==
    /\ BrokerInit /\ StoreInit /\ bnd = NoBind /\ RepoInit
    /\ JournalInit /\ CellInit /\ StInit /\ EnvInit
    /\ EventIdle
    /\ nameOp \in {[NoNameOp EXCEPT !.n = n] : n \in Names}
    /\ revs = [i \in 0..MaxPuts |-> 0]
    /\ fcall = NoFork
    /\ RestInit
    /\ haddr = HandlerCommit

SpecName == NameInitial /\ [][NameNext]_vars

\* an engine Config that is loaded and asked for events
LookupInitial == BrokerInit /\ StoreInit /\ bnd = NoBind /\ RepoInit /\ MoreInit /\ EventIdle

SpecLookup == LookupInitial /\ [][LookupNext]_vars

\* an Operation plugin that is called once
OperationInitial == BrokerInit /\ StoreInit /\ bnd = NoBind /\ RepoInit /\ MoreInit /\ EventIdle

SpecOperation == OperationInitial /\ [][OperationNext]_vars

(***************************************************************************)
(* Reading the history of a Broker run.  Entry k of log was the k-th       *)
(* operation to complete; inv is the number of operations that had         *)
(* completed when it was invoked.                                          *)
(***************************************************************************)
LogIdx == 1..Len(log)

IsSend(k, d) == log[k].op = "send" /\ log[k].dest = d

IsSendOk(k, d) == IsSend(k, d) /\ log[k].res = "Ok"

\* a receive on d, direct or made by Call::bind
IsTake(k, d) ==
    /\ log[k].op \in {"receive", "bind"}
    /\ log[k].dest = d
    /\ log[k].res = "Ok"

\* the message the take obtained
TakeResult(k) == log[k].got

NoTakeBetween(d, i, j) == \A k \in (i+1)..(j-1) : ~IsTake(k, d)

NoSendOkBetween(d, i, j) == \A k \in (i+1)..(j-1) : ~IsSendOk(k, d)

NoTakeAfter(d, i) == \A k \in (i+1)..Len(log) : ~IsTake(k, d)

\* the successful sends to d whose message no receive has removed yet
Unreceived(d) == {i \in LogIdx : IsSendOk(i, d) /\ NoTakeAfter(d, i)}

(***************************************************************************)
(* C1: every destination holds at most one pending message, and the        *)
(* pending message is the one of the successful send that no receive has   *)
(* removed yet: no later send replaces it.                                 *)
(***************************************************************************)
C1_OneSlotNeverReplaced ==
    \A d \in Commits :
        /\ Cardinality(Unreceived(d)) <= 1
        /\ (Unreceived(d) = {}) => data[d] = NoEntry
        /\ \A i \in Unreceived(d) : data[d] = log[i].msg

\* a send was rejected while another message stayed pending
C1_Witness ==
    \E d \in Commits : \E i, j \in LogIdx :
        /\ i < j /\ IsSendOk(i, d) /\ IsSend(j, d)
        /\ log[j].msg # log[i].msg /\ NoTakeAfter(d, i)
        /\ data[d] = log[i].msg

(***************************************************************************)
(* C2: send(dest, m1) followed by send(dest, m2) with no receive(dest) in  *)
(* between: the second send returns PreviousUnhandledRequest and the next  *)
(* receive(dest) yields m1.                                                *)
(***************************************************************************)
C2_SecondSendRejected ==
    \A d \in Commits : \A i, j \in LogIdx :
        (/\ i < j /\ IsSendOk(i, d) /\ IsSend(j, d)
         /\ log[j].inv >= i /\ NoTakeBetween(d, i, j))
        => /\ log[j].res = "PreviousUnhandledRequest"
           /\ \A k \in LogIdx :
                (k > j /\ IsTake(k, d) /\ NoTakeBetween(d, i, k))
                => TakeResult(k) = log[i].msg

C2_Witness ==
    \E d \in Commits : \E i, j, k \in LogIdx :
        /\ i < j /\ j < k
        /\ IsSendOk(i, d) /\ IsSend(j, d) /\ log[j].inv >= i
        /\ log[j].msg # log[i].msg
        /\ IsTake(k, d) /\ NoTakeBetween(d, i, k)

(***************************************************************************)
(* C3: a receive frees the slot: after send(c, t1) succeeded and           *)
(* receive(c) returned t1, a following send(c, t2) returns Ok and the next *)
(* receive(c) yields t2.                                                   *)
(***************************************************************************)
C3_ReceiveFreesSlot ==
    \A d \in Commits : \A i, j, k \in LogIdx :
        (/\ i < j /\ j < k
         /\ IsSendOk(i, d) /\ IsTake(j, d) /\ NoTakeBetween(d, i, j)
         /\ IsSend(k, d) /\ log[k].inv >= j
         /\ NoSendOkBetween(d, j, k) /\ NoTakeBetween(d, j, k))
        => /\ TakeResult(j) = log[i].msg
           /\ log[k].res = "Ok"
           /\ \A l \in LogIdx :
                (l > k /\ IsTake(l, d) /\ NoTakeBetween(d, k, l))
                => TakeResult(l) = log[k].msg

C3_Witness ==
    \E d \in Commits : \E i, j, k, l \in LogIdx :
        /\ i < j /\ j < k /\ k < l
        /\ IsSendOk(i, d) /\ IsTake(j, d)
        /\ IsSend(k, d) /\ log[k].inv >= j /\ log[k].msg # log[i].msg
        /\ IsTake(l, d)

(***************************************************************************)
(* C4: two sends race for the same empty destination (both passed the      *)
(* read phase before either wrote): exactly one returns Ok, the other      *)
(* returns WriteRequestRaceCondition (PreviousUnhandledRequest if its      *)
(* check ran after the install), and the message left pending is the one   *)
(* of the send that returned Ok.                                           *)
(***************************************************************************)
C4_RaceDetected ==
    \A d \in Commits : \A i, j \in LogIdx :
        (/\ i < j /\ IsSendOk(i, d) /\ IsSend(j, d) /\ NoTakeBetween(d, i, j))
        => /\ log[j].res = IF log[j].inv < i THEN "WriteRequestRaceCondition"
                                             ELSE "PreviousUnhandledRequest"
           /\ NoTakeAfter(d, i) => data[d] = log[i].msg

\* both sends had passed the read phase before the first one wrote
C4_Witness ==
    \E d \in Commits : \E i, j \in LogIdx :
        /\ i < j /\ IsSendOk(i, d) /\ IsSend(j, d)
        /\ log[j].inv < i /\ log[i].inv < i
        /\ log[j].msg # log[i].msg
        /\ log[j].res = "WriteRequestRaceCondition"
        /\ data[d] = log[i].msg

(***************************************************************************)
(* C5: each sent message is consumed at most once: of the receives (direct *)
(* or made by Call::bind) that follow a successful send, the first obtains *)
(* the message and every other one obtains Empty.                          *)
(***************************************************************************)
C5_ConsumedOnce ==
    \A d \in Commits : \A i, k \in LogIdx :
        (/\ i < k /\ IsSendOk(i, d) /\ IsTake(k, d) /\ NoSendOkBetween(d, i, k))
        => TakeResult(k) = IF NoTakeBetween(d, i, k) THEN log[i].msg ELSE Empty

\* a receive and a bind both followed one send
C5_Witness ==
    \E d \in Commits : \E i, j, k \in LogIdx :
        /\ i < j /\ j < k /\ IsSendOk(i, d) /\ NoSendOkBetween(d, i, k)
        /\ IsTake(j, d) /\ IsTake(k, d)
        /\ log[j].op # log[k].op
        /\ TakeResult(j) = log[i].msg /\ TakeResult(k) = Empty

(***************************************************************************)
(* Reading the history of a Call run                                       *)
(***************************************************************************)
IsBindOk(k, c) == log[k].op = "bind" /\ log[k].dest = c /\ log[k].res = "Ok"

IsUpdateOk(k, c) == log[k].op = "update" /\ log[k].dest = c /\ log[k].res = "Ok"

\* the message pending at c when entry k was invoked
PendingBefore(k, c) ==
    LET oks == {i \in 1..(k-1) : IsSendOk(i, c) /\ NoTakeBetween(c, i, k)}
    IN  IF oks = {} THEN Empty ELSE log[CHOOSE i \in oks : TRUE].msg

\* the number of mutations made to the plugin at c before entry k
UpdatesBefore(k, c) == Cardinality({i \in 1..(k-1) : IsUpdateOk(i, c)})

\* the bind that made the Bind in use at entry k
BindOf(k) == CHOOSE b \in 1..(k-1) :
                /\ log[b].op = "bind" /\ log[b].res = "Ok"
                /\ \A j \in (b+1)..(k-1) : ~(log[j].op = "bind" /\ log[j].res = "Ok")

(***************************************************************************)
(* C7: a successful Call::bind<P> on an Item at commit c removes the       *)
(* message pending at c and passes it to P::receive exactly once; after    *)
(* the bind the slot of c is empty, and a second bind with no send in      *)
(* between passes Empty to P::receive.                                     *)
(***************************************************************************)
C7_BindConsumesPending ==
    \A c \in Commits : \A k \in LogIdx :
        IsBindOk(k, c)
        => /\ log[k].received = <<PendingBefore(k, c)>>
           /\ (k = Len(log)) => data[c] = NoEntry
           /\ \A j \in LogIdx :
                (j > k /\ IsBindOk(j, c) /\ NoSendOkBetween(c, k, j))
                => log[j].received = <<Empty>>

C7_Witness ==
    \E c \in Commits : \E i, k, j \in LogIdx :
        /\ i < k /\ k < j /\ j = Len(log)
        /\ IsSendOk(i, c) /\ IsBindOk(k, c) /\ IsBindOk(j, c)
        /\ log[k].received = <<log[i].msg>>
        /\ log[j].received = <<Empty>>
        /\ data[c] = NoEntry

(***************************************************************************)
(* C9: Call::bind<Q> on an Item whose stored plugin type is not Q returns  *)
(* PluginMismatch and changes nothing: the stored plugin state is          *)
(* unchanged and a message pending at the Item's commit stays pending.     *)
(***************************************************************************)
C9_MismatchChangesNothing ==
    [][(/\ Len(log') = Len(log) + 1
        /\ log'[Len(log')].op = "bind"
        /\ log'[Len(log')].bound # ItemType(log'[Len(log')].dest))
       => /\ log'[Len(log')].res = "PluginMismatch"
          /\ log'[Len(log')].received = <<>>
          /\ data' = data
          /\ stored' = stored
          /\ bnd' = bnd]_vars

\* a mismatched bind was made while a message was pending, and it still is
C9_Witness ==
    /\ Len(log) > 1
    /\ log[Len(log)].op = "bind"
    /\ log[Len(log)].res = "PluginMismatch"
    /\ data[log[Len(log)].dest] # NoEntry
    /\ stored[log[Len(log)].dest].rev > 0

(***************************************************************************)
(* C10: when P::receive returns an override, the Item in the Store is left *)
(* unchanged by the bind; Bind::receiver reads the override, while         *)
(* Bind::update always reads and writes the stored Item's state and never  *)
(* the override.                                                           *)
(***************************************************************************)
C10_OverrideLeavesStore ==
    /\ \A c \in Commits :
          stored[c] = PluginState(UpdatesBefore(Len(log) + 1, c), NoEntry)
    /\ \A k \in LogIdx :
          /\ (log[k].op = "bind" /\ log[k].res = "Ok" /\ log[k].bound = "P"
                /\ log[k].got # Empty)
             => log[k].msg = PluginState(UpdatesBefore(k, log[k].dest), log[k].got)
          /\ log[k].op = "receiver"
             => log[k].got = IF log[BindOf(k)].msg # NoEntry
                             THEN log[BindOf(k)].msg
                             ELSE PluginState(UpdatesBefore(k, log[k].dest), NoEntry)
          /\ log[k].op = "update"
             => log[k].got = PluginState(UpdatesBefore(k, log[k].dest), NoEntry)

\* an override was bound, the stored plugin was then mutated, and receiver
\* still read the override
C10_Witness ==
    \E b, u, r \in LogIdx :
        /\ b < u /\ u < r
        /\ log[b].op = "bind" /\ log[b].res = "Ok" /\ log[b].msg # NoEntry
        /\ log[u].op = "update" /\ log[u].res = "Ok"
        /\ log[r].op = "receiver" /\ log[r].got = log[b].msg
        /\ stored[log[b].dest].rev = 1
        /\ log[r].got.rev = 0

(***************************************************************************)
(* Reading the trace of an Event::start                                    *)
(***************************************************************************)
TraceIdx == 1..Len(trace)

Has(ev) == \E i \in TraceIdx : trace[i].ev = ev

\* position of the event in the trace, 0 when it did not happen
Pos(ev) == IF Has(ev) THEN CHOOSE i \in TraceIdx : trace[i].ev = ev ELSE 0

HasOk(ev) == \E i \in TraceIdx : trace[i].ev = ev /\ trace[i].res = "Ok"

\* the receives made on the slot of commit c during the start
ReceivesAt(c) ==
    {i \in TraceIdx : trace[i].ev \in {"bind", "rebind"} /\ trace[i].commit = c}

(***************************************************************************)
(* C6: for an event with a handler attached, the plugin's Work completes,  *)
(* then Handler::handle is invoked with a rebound target, then the         *)
(* handler's own call-fn starts; every successful start() went through the *)
(* three in this order.  If the plugin's Work fails, handle and the        *)
(* handler's call-fn are never invoked and the plugin's error is the       *)
(* result.                                                                 *)
(***************************************************************************)
C6_HandlerSequence ==
    /\ Has("handle_invoked")
       => /\ HasOk("plugin_work_complete")
          /\ Pos("plugin_work_complete") < Pos("rebind")
          /\ Pos("rebind") < Pos("handle_invoked")
    /\ Has("handler_call_started")
       => /\ HasOk("handle_invoked")
          /\ Pos("handle_invoked") < Pos("handler_call_started")
    /\ (epc = "done" /\ result = "Ok" /\ attached /\ loaded)
       => Has("handler_call_started")
    /\ ptask \in (TaskOutcomes \ {"Ok"})
       => /\ ~Has("handle_invoked")
          /\ ~Has("handler_call_started")
          /\ epc = "done" => result = ptask

\* a start() with a handler that resolved Ok
C6_Witness ==
    /\ epc = "done" /\ result = "Ok" /\ attached /\ loaded
    /\ Pos("plugin_work_complete") < Pos("handle_invoked")
    /\ Pos("handle_invoked") < Pos("handler_call_started")

(***************************************************************************)
(* C11: if Handler::handle returns an error during start() of an event     *)
(* with a handler, the handler's own call-fn is never invoked and start()  *)
(* resolves with PluginCallSkipped, not with the error handle returned.    *)
(***************************************************************************)
HandleFailed ==
    \E i \in TraceIdx : trace[i].ev = "handle_invoked" /\ trace[i].res # "Ok"

C11_HandleErrorSkips ==
    HandleFailed
    => /\ ~Has("handler_call_started")
       /\ ctask = "none"
       /\ epc = "done" => result = "PluginCallSkipped"

\* handle returned PluginCallError and start() has resolved
C11_Witness ==
    /\ HandleFailed
    /\ epc = "done"
    /\ result = "PluginCallSkipped"

(***************************************************************************)
(* C8: within one start() of an event, with or without a handler, the      *)
(* slot of the plugin's commit is received from exactly once, at the       *)
(* plugin's bind; a message sent to that commit after the bind is still    *)
(* pending when start() completes.                                         *)
(***************************************************************************)
C8_ObservedOncePerCall ==
    epc = "done"
    => /\ Cardinality(ReceivesAt(TargetCommit)) = 1
       /\ \A i \in TraceIdx :
            (/\ trace[i].ev = "send" /\ trace[i].commit = TargetCommit
             /\ trace[i].res = "Ok" /\ i > Pos("bind"))
            => data[TargetCommit] = trace[i].msg

(***************************************************************************)
(* C12: Event::with_handler<H>(address) and Event::set_handler(address,    *)
(* handlerThunk) attach the handler only when the type of the event's      *)
(* plugin equals the handler's target type; on a mismatch they fail with   *)
(* PluginHandlerTargetMismatch and leave the event's handler as it was     *)
(* (none on a fresh event), so that every event that carries a handler has *)
(* a matching target type.                                                 *)
(***************************************************************************)
C12_MismatchRejected ==
    /\ attached <=> hthunk # "none"
    /\ attached => hthunk = ItemType(TargetCommit)
    /\ attach.fn # "none"
       => IF attach.target = ItemType(TargetCommit)
          THEN attach.res = "Ok" /\ hthunk = attach.target
          ELSE attach.res = "PluginHandlerTargetMismatch" /\ hthunk = attach.before

(***************************************************************************)
(* C13: for an event with a handler attached by address, returns() runs    *)
(* the plugin, then handle, then the handler's call-fn, as start() does,   *)
(* and on success yields the message the handler published to its own      *)
(* commit during the run and removes it from the broker, so that the       *)
(* handler's slot is empty when returns() completes; with no handler it    *)
(* runs the plugin and yields Empty; if the run fails it yields the error  *)
(* and no message.                                                         *)
(***************************************************************************)
ReplyOk == \E i \in TraceIdx : trace[i].ev = "reply" /\ trace[i].res = "Ok"

\* a publisher filled the slot of c after returns() completed
SentAfterResolve(c) ==
    \E i \in TraceIdx :
        /\ trace[i].ev = "send" /\ trace[i].commit = c /\ trace[i].res = "Ok"
        /\ i > Pos("resolved")

C13_ReturnsHandlerMessage ==
    (api = "returns" /\ epc = "done")
    => /\ result # "Ok" => returned = NoEntry
       /\ (result = "Ok" /\ ~attached)
          => /\ returned = Empty
             /\ HasOk("plugin_work_complete")
       /\ (result = "Ok" /\ attached /\ loaded)
          => /\ HasOk("plugin_work_complete")
             /\ Pos("plugin_work_complete") < Pos("handle_invoked")
             /\ Pos("handle_invoked") < Pos("handler_call_started")
             /\ ReplyOk <=> returned = Reply
             /\ ~SentAfterResolve(HandlerCommit) => data[HandlerCommit] = NoEntry

\* returns() yielded the handler's reply although a publisher had sent to
\* the handler's commit before the handler was bound
C13_Witness ==
    /\ api = "returns" /\ epc = "done" /\ result = "Ok"
    /\ attached /\ loaded
    /\ returned = Reply
    /\ data[HandlerCommit] = NoEntry
    /\ \E i \in TraceIdx :
          /\ trace[i].ev = "send" /\ trace[i].commit = HandlerCommit
          /\ trace[i].res = "Ok" /\ i < Pos("reply")

(***************************************************************************)
(* C14: whenever a Work is polled while its token is cancelled, it aborts  *)
(* its task and resolves with PluginCallCancelled, whatever the state of   *)
(* the task, and never with a TaskError; when the token is not cancelled   *)
(* the poll gives what the inner task gives.                               *)
(***************************************************************************)
C14_CancelledPollResolves ==
    lastPoll.site # "none"
    => IF lastPoll.cancelled
       THEN lastPoll.res = "PluginCallCancelled" /\ lastPoll.abort
       ELSE lastPoll.res = WorkPoll(lastPoll.task) /\ ~lastPoll.abort

(***************************************************************************)
(* C15: after State::close() cancelled the root token, a Work in flight    *)
(* for an event of that State eventually resolves with PluginCallCancelled *)
(* and its task does not run any more, even when the body of the task      *)
(* stays pending and does not watch the token.                             *)
(***************************************************************************)
C15_CloseResolvesWork ==
    (tokens[Root].cancelled /\ epc = "await")
    ~> (epc = "done" /\ result = "PluginCallCancelled" /\ ptask # "running")

(***************************************************************************)
(* C16: the tokens form a tree rooted at the State: every event's token is *)
(* a child of the root and every fork's token is a child of the token of   *)
(* the event or fork it was forked from.  A cancelled token has all its    *)
(* descendants cancelled, and a token is cancelled only if cancel() was    *)
(* called on it or on one of its ancestors: cancelling a fork never        *)
(* cancels the event it was forked from, a sibling or the root.            *)
(***************************************************************************)
C16_TokenTree ==
    \A i \in 1..Len(tokens) :
        /\ tokens[i].kind = "root" <=> i = Root
        /\ tokens[i].kind = "event" => tokens[i].parent = Root
        /\ tokens[i].kind = "fork"
           => tokens[tokens[i].parent].kind \in {"event", "fork"}
        /\ \A a \in Ancestors(tokens, i) : tokens[a].cancelled => tokens[i].cancelled
        /\ tokens[i].cancelled
           <=> \E a \in {i} \cup Ancestors(tokens, i) : tokens[a].asked

\* a fork was cancelled: its own fork is cancelled with it, the event it
\* was forked from, another event and the root are not
C16_Witness ==
    \E e, f, g, b \in 1..Len(tokens) :
        /\ tokens[e].kind = "event" /\ tokens[b].kind = "event" /\ e # b
        /\ tokens[f].kind = "fork" /\ tokens[f].parent = e
        /\ tokens[g].kind = "fork" /\ tokens[g].parent = f
        /\ tokens[f].asked /\ tokens[f].cancelled
        /\ tokens[g].cancelled /\ ~tokens[g].asked
        /\ ~tokens[e].cancelled /\ ~tokens[b].cancelled /\ ~tokens[Root].cancelled

(***************************************************************************)
(* C17: an event with a handler is cancellable as a unit: the handler      *)
(* Call's token is a descendant of the event's token, and cancelling the   *)
(* event's token while the plugin runs or while the handler's call-fn runs *)
(* makes start() resolve with PluginCallCancelled.                         *)
(***************************************************************************)
C17_CancellableAsUnit ==
    /\ htok # 0 => etok \in Ancestors(tokens, htok)
    /\ (epc = "done" /\ attached /\ cancelAt \in {"plugin", "handler"})
       => result = "PluginCallCancelled"

(***************************************************************************)
(* Reading the history of a Store: entry k of puts is the k-th put that    *)
(* was committed.                                                          *)
(***************************************************************************)
PutsOf(op) == {k \in 1..Len(puts) : puts[k].op = op}

SameInputs(a, b) ==
    /\ a.type = b.type
    /\ a.content = b.content
    /\ a.ident = b.ident
    /\ a.labels = b.labels

\* how many of the inputs of two puts of one type differ
InputsChanged(a, b) ==
    (IF a.content # b.content THEN 1 ELSE 0)
    + (IF a.ident # b.ident THEN 1 ELSE 0)
    + (IF a.labels # b.labels THEN 1 ELSE 0)

\* the commits of the history: of the labels and of the attributes of each put
Stages == UNION {{puts[k].lab, puts[k].fin} : k \in 1..Len(puts)}

\* how many of the contributions of two commits have different hashes
HashesChanged(s, t) ==
    (IF s.ident # t.ident THEN 1 ELSE 0)
    + (IF s.repr # t.repr THEN 1 ELSE 0)
    + (IF s.res # t.res THEN 1 ELSE 0)

LoadItem(k) == [type |-> puts[k].type, content |-> puts[k].content]

LoadAddress(k) == [name |-> puts[k].type, commit |-> puts[k].commit]

LastLoadOf(T) ==
    CHOOSE k \in PutsOf("load") :
        /\ puts[k].type = T
        /\ \A m \in PutsOf("load") : puts[m].type = T => m <= k

\* the commit ids of load k, of its item and of its Name, are the ids of no
\* other item and of no other representation in the journal
Alone(k) ==
    \A m \in 1..Len(puts) :
        /\ puts[m].commit = puts[k].commit => LoadItem(m) = LoadItem(k)
        /\ puts[k].commit \notin {puts[m].thunked, puts[m].named, puts[m].lab.commit}
        /\ puts[m].named = puts[k].named => puts[m].type = puts[k].type
        /\ puts[k].named \notin {puts[m].thunked, puts[m].lab.commit, puts[m].commit}

\* what State::load promises about an earlier load i and a later load j of
\* one type
Registered(i, j) ==
    /\ LoadAddress(i) # LoadAddress(j)
    /\ {LoadAddress(i), LoadAddress(j)} \subseteq Addresses
    /\ j = LastLoadOf(puts[j].type) => FindPlugin(NamePath(puts[j].type)) = LoadItem(j)
    /\ FindPlugin(AddressPath(puts[i].type, puts[i].commit)) = LoadItem(i)

\* C18 (as stated): two loads of one plugin type with distinct content get
\* two distinct addresses that addresses() lists; the name path finds the
\* latest load and the address of the earlier load finds the earlier item.
C18_DistinctContentRegistered ==
    \A i, j \in PutsOf("load") :
        (i < j /\ puts[i].type = puts[j].type /\ puts[i].content # puts[j].content)
            => Registered(i, j)

\* C18 (amended): two loads of one plugin type whose commit ids differ, the
\* ids of each being the ids of nothing else in the Store, get two distinct
\* addresses that addresses() lists; the name path finds the latest load and
\* the address of the earlier load finds the earlier item.
C18_DistinctCommitRegistered ==
    \A i, j \in PutsOf("load") :
        (/\ i < j
         /\ puts[i].type = puts[j].type
         /\ puts[i].commit # puts[j].commit
         /\ Alone(i) /\ Alone(j))
            => Registered(i, j)

C18_Witness ==
    \E i, j \in PutsOf("load") :
        /\ i < j
        /\ puts[i].type = puts[j].type
        /\ puts[i].content # puts[j].content
        /\ puts[i].commit # puts[j].commit
        /\ Alone(i) /\ Alone(j)
        /\ j = LastLoadOf(puts[j].type)
        /\ Registered(i, j)

C20_AnyChangeChangesId ==
    \A i, j \in PutsOf("put") :
        (puts[i].type = puts[j].type /\ InputsChanged(puts[i], puts[j]) = 1)
            => puts[i].commit # puts[j].commit

\* C20 (amended): a commit id is hi XOR the XOR of the hashes of its
\* contributions, so of two commits of one representation type whose
\* contributions have the same hashes but one, the ids differ, and two
\* commits whose contributions have the same hashes have the same id:
\* a change of a contribution that keeps its hash keeps the id.
C20_HashChangeChangesId ==
    /\ \A s \in Stages : s.commit = Xor(s.hi, Xor(s.ident, Xor(s.repr, s.res)))
    /\ \A s, t \in Stages :
          s.hi = t.hi =>
              /\ HashesChanged(s, t) = 1 => s.commit # t.commit
              /\ HashesChanged(s, t) = 0 => s.commit = t.commit

C20_Witness ==
    \E i, j \in PutsOf("put") :
        /\ puts[i].type = puts[j].type
        /\ ContentFrom(puts[i].type) = "BincodeContent"
        /\ puts[i].ident = puts[j].ident /\ puts[i].labels = puts[j].labels
        /\ puts[i].content # puts[j].content
        /\ HashesChanged(puts[i].lab, puts[j].lab) = 1
        /\ puts[i].lab.commit # puts[j].lab.commit
        /\ puts[i].commit # puts[j].commit

(***************************************************************************)
(* C21: under any interleaving of Journal::log, Journal::get and           *)
(* Journal::logs from several threads the journal only grows: a commit     *)
(* that get has returned a handle for has a handle at every later time, no *)
(* key of the recorded map is ever removed, the current snapshot and every *)
(* snapshot handed to a reader is a value the recorded map had at one      *)
(* moment, and a snapshot that was handed out is not changed by later log  *)
(* calls.                                                                  *)
(***************************************************************************)
Keys(m) == {k \in DOMAIN m : m[k] # NoHandle}

C21_JournalOnlyGrows ==
    /\ \A k \in jgot : arcs[jsnap][k] # NoHandle
    /\ \A m \in jpast : Keys(m) \subseteq Keys(jrec)
    /\ arcs[jsnap] \in jpast
    /\ \A t \in Threads :
          jheld[t] # NoHeld
          => /\ arcs[jheld[t].arc] = jheld[t].val
             /\ jheld[t].val \in jpast

\* a reader holds a snapshot that a later log call has replaced, and get has
\* returned a handle
C21_Witness ==
    /\ jgot # {}
    /\ \E t \in Threads :
          /\ jheld[t] # NoHeld
          /\ jheld[t].arc # jsnap
          /\ jheld[t].val # arcs[jsnap]
          /\ Keys(jheld[t].val) # {}

(***************************************************************************)
(* C22: mutable access to a plugin is exclusive: while a thread uses the   *)
(* reference borrow_mut gave it through its clone of an Item, no other     *)
(* thread holds a reference to the plugin from borrow or borrow_mut.       *)
(***************************************************************************)
C22_ExclusiveMut ==
    \A t, u \in Threads :
        (t # u /\ refs[t] = "mut") => refs[u] \notin {"mut", "shared"}

(***************************************************************************)
(* C23: every path registered in the plugin map of a State resolves to an  *)
(* Item that exists in the Store and whose attributes hold a Thunk and a   *)
(* Name; the Name is that of the path, and an item that load_handler       *)
(* loaded holds a HandlerThunk too.  Stated for the State and its clone,   *)
(* and for runs in which no two commits collide.                           *)
(***************************************************************************)
StateViews == {"state"} \cup (IF cloned THEN {"clone"} ELSE {})

\* what put k logged: the commit and the handle of its Attributes and of
\* each attribute
Logged(k) ==
    {<<puts[k].commit, Handle("Attributes", "none", puts[k].attrs)>>}
    \cup {<<puts[k].attrs[TypeBits(A)],
            Handle(A, IF A = "Name" THEN puts[k].type ELSE "none", NoAttrs)>> :
            A \in {R \in {"Labels", "Thunk", "Name", "HandlerThunk"} :
                      puts[k].attrs[TypeBits(R)] # NoCommit}}

\* no commit id stands for two handles or for two items
NoCollision ==
    \A k \in 1..Len(puts) :
        /\ \A e \in Logged(k) : journal[e[1]] = e[2]
        /\ items[puts[k].commit] = [type |-> puts[k].type, content |-> puts[k].content]

\* the path was registered by load_handler
HandlerPath(path) ==
    \E k \in PutsOf("load_handler") :
        puts[k].commit = plugins[path] /\ puts[k].type = path.name

\* Item::attributes of the item at a commit
ItemAttrs(k) == journal[k].attrs

C23_RegisteredResolves ==
    NoCollision
    => \A on \in StateViews, path \in Paths :
         plugins[path] # NoCommit
         => /\ StoreItem(on, plugins[path]) # NoItem
            /\ journal[plugins[path]].repr = "Attributes"
            /\ AttrGet(ItemAttrs(plugins[path]), "Thunk")
            /\ AttrGet(ItemAttrs(plugins[path]), "Name")
            /\ ItemName(plugins[path]) = path.name
            /\ HandlerPath(path) => AttrGet(ItemAttrs(plugins[path]), "HandlerThunk")

(***************************************************************************)
(* C24: with disallow_commit_conflicts set, a State::load of a plugin      *)
(* whose address is registered leaves the plugin map and the stored Item   *)
(* as they were and reports the conflict to the caller.                    *)
(***************************************************************************)
LoadStep == Len(puts') = Len(puts) + 1 /\ puts'[Len(puts')].op = "load"

Conflicts ==
    plugins[AddressPath(puts'[Len(puts')].type, puts'[Len(puts')].commit)] # NoCommit

C24_ConflictReported ==
    [][(LoadStep /\ disallow /\ Conflicts)
       => /\ loadRes' = "conflict"
          /\ plugins' = plugins
          /\ heads' = heads
          /\ items' = items]_vars

(***************************************************************************)
(* C25: load_env does not abort: when a plugin file that config.toml names *)
(* is missing, is no toml document, has no loader, or does not deserialize *)
(* into its plugin type, load_env returns an error and registers nothing   *)
(* for that entry.                                                         *)
(***************************************************************************)
FailingEntries(conf) == {n \in DOMAIN conf.entries : conf.entries[n] # "valid"}

C25_LoadEnvReturnsError ==
    (envOp.op = "load_env" /\ envOp.input.found /\ FailingEntries(envOp.input) # {})
    => /\ envOp.out.res = "Err"
       /\ FailingEntries(envOp.input) \cap registered = {}

(***************************************************************************)
(* C26, as stated: when no entry of source_root/<label> is a .toml file    *)
(* with a valid -kt-build table, build_env returns the InvalidData error   *)
(* "No valid files were found" and writes nothing under the target root.   *)
(***************************************************************************)
NoValidFile == envOp.op = "build_env" /\ CopyTasks(envOp.input) = {}

C26_NoValidFilesError ==
    NoValidFile
    => /\ envOp.out = IoError("InvalidData", "No valid files were found")
       /\ targetRoot = envOp.before

(***************************************************************************)
(* C26, amended: when no entry of source_root/<label> is a .toml file with *)
(* a valid -kt-build table, build_env returns an error and writes nothing  *)
(* under the target root; the error is the InvalidData error "No valid     *)
(* files were found" when the directory can be listed and each of its      *)
(* .toml files can be read as text.                                        *)
(***************************************************************************)
Readable(dir) ==
    dir.listed /\ \A n \in DOMAIN dir.entries : dir.entries[n] # "unreadable"

C26_ReadableNoValidFilesError ==
    NoValidFile
    => /\ envOp.out.res = "Err"
       /\ targetRoot = envOp.before
       /\ Readable(envOp.input)
          => envOp.out = IoError("InvalidData", "No valid files were found")

\* a directory of .toml files without a valid table was built into a target
\* root that holds the files of an earlier build
C26_Witness ==
    /\ NoValidFile
    /\ Readable(envOp.input)
    /\ \E n \in DOMAIN envOp.input.entries : envOp.input.entries[n] = "no_table"
    /\ \E n \in DOMAIN envOp.input.entries : envOp.input.entries[n] = "bad_build"
    /\ envOp.out.kind = "InvalidData"
    /\ targetRoot # {}

(***************************************************************************)
(* C27: when the item of the handler attached to an event is not found in  *)
(* the State, neither by the handler's address nor by its name path, the   *)
(* event runs as without a handler: neither Handler::handle nor the        *)
(* handler's call-fn is invoked, and start() resolves with the result of   *)
(* the plugin's work.                                                      *)
(***************************************************************************)
C27_AbsentHandlerRunsPlugin ==
    (attached /\ ~loaded)
    => /\ ~Has("handle_invoked")
       /\ ~Has("handler_call_started")
       /\ hpc = "none"
       /\ ctask = "none"
       /\ htok = 0
       /\ (epc = "done" /\ ptask # "none")
          => /\ lastPoll.site = "start"
             /\ lastPoll.task = ptask
             /\ result = ptask

\* start() of an event with a handler whose item is not found has resolved
\* with the result of the plugin's work
C27_Witness ==
    /\ attached
    /\ ~loaded
    /\ epc = "done"
    /\ ptask = "Ok"
    /\ result = "Ok"

(***************************************************************************)
(* C28: when the call-fn of the plugin declines with skip(), start()       *)
(* resolves with PluginCallSkipped, no task is spawned, the stored plugin  *)
(* is unchanged, and neither Handler::handle nor the call-fn of an         *)
(* attached handler runs.                                                  *)
(***************************************************************************)
CallSkipped ==
    \E i \in TraceIdx : trace[i].ev = "plugin_call" /\ trace[i].res = "PluginCallSkipped"

C28_SkipResolvesSkipped ==
    CallSkipped
    => /\ epc = "done"
       /\ result = "PluginCallSkipped"
       /\ ptask = "none"
       /\ ctask = "none"
       /\ hpc = "none"
       /\ stored = [c \in Commits |-> PluginState(0, NoEntry)]
       /\ ~Has("handle_invoked")
       /\ ~Has("handler_call_started")

\* the plugin of an event whose handler can be found has declined
C28_Witness ==
    /\ CallSkipped
    /\ attached
    /\ loaded
    /\ result = "PluginCallSkipped"

(***************************************************************************)
(* C29: State::event and State::spawn (which State::call awaits) on a path *)
(* that is not registered, or whose registration has no Thunk or no Item   *)
(* in the Store, return PluginNotFound, make no cancellation token, spawn  *)
(* no work, and leave the plugin map and the broker as they were.          *)
(***************************************************************************)
NotResolved(on, path) ==
    \/ plugins[path] = NoCommit
    \/ StoreItem(on, plugins[path]) = NoItem
    \/ ~AttrGet(heads[path], "Thunk")

C29_NotFoundChangesNothing ==
    [][(lookup' # lookup /\ NotResolved(lookup'.on, lookup'.path))
       => /\ lookup'.res = "PluginNotFound"
          /\ tokens' = tokens
          /\ plugins' = plugins
          /\ data' = data
          /\ ptask' = ptask
          /\ ctask' = ctask
          /\ epc' = epc]_vars

\* spawn on a registered path whose item the Store of the clone does not
\* have returned PluginNotFound
C29_Witness ==
    /\ lookup.res = "PluginNotFound"
    /\ lookup.api = "spawn"
    /\ plugins[lookup.path] # NoCommit
    /\ tokens = <<RootToken>>

(***************************************************************************)
(* C30: applying input to a plugin with a declared template field gives an *)
(* I/O error value when the input has no entry for the field or the entry  *)
(* is no table; stated for the fields whose value in the plugin is a       *)
(* template string.                                                        *)
(***************************************************************************)
C30_MissingInputIsError ==
    (/\ envOp.op = "apply"
     /\ \E k \in envOp.input.fields :
           envOp.input.doc[k] = "template" /\ envOp.input.data[k] # "table")
    => envOp.out.res = "Err"

(***************************************************************************)
(* C31: receive(commit) on a destination with no pending message returns   *)
(* Empty and leaves the broker as it was, the pending messages of the      *)
(* other destinations included; so does every further receive on it.       *)
(***************************************************************************)
C31_EmptyReceiveIdempotent ==
    [][(/\ Len(log') = Len(log) + 1
        /\ log'[Len(log')].op = "receive"
        /\ data[log'[Len(log')].dest] = NoEntry)
       => /\ log'[Len(log')].got = Empty
          /\ data' = data]_vars

\* two receives in a row on an empty destination returned Empty while
\* another destination had a message pending
C31_Witness ==
    \E i \in LogIdx : \E d \in Commits :
        /\ i + 1 \in LogIdx
        /\ log[i].op = "receive" /\ log[i + 1].op = "receive"
        /\ log[i].dest = log[i + 1].dest
        /\ log[i].got = Empty /\ log[i + 1].got = Empty
        /\ d # log[i].dest
        /\ data[d] # NoEntry
        /\ \E k \in LogIdx : k < i /\ IsSendOk(k, d)

(***************************************************************************)
(* C32: for a Name n built from a package, a module, a plugin and a        *)
(* version, parse_name of n.full_plugin_ref() succeeds and gives a Name    *)
(* whose full_plugin_ref() is the string that was parsed and whose path is *)
(* the path of n; parse_name of n.plugin_ref() gives the same package,     *)
(* module and plugin with the version 0.0.0.                               *)
(***************************************************************************)
C32_ParseRoundTrip ==
    /\ nameOp.form = "full"
       => /\ nameOp.out.res = "Ok"
          /\ Display(nameOp.out.name, TRUE) = nameOp.input
          /\ nameOp.out.name.path = nameOp.n.path
    /\ nameOp.form = "short"
       => /\ nameOp.out.res = "Ok"
          /\ nameOp.out.name.package = nameOp.n.package
          /\ nameOp.out.name.module = nameOp.n.module
          /\ nameOp.out.name.plugin = nameOp.n.plugin
          /\ nameOp.out.name.version = <<0, 0, 0>>

\* the full reference of a name with a version other than 0.0.0 was parsed
C32_Witness ==
    /\ nameOp.form = "full"
    /\ nameOp.n.version = <<1, 0, 1>>
    /\ Len(nameOp.n.module) = 2
    /\ nameOp.out.res = "Ok"
    /\ nameOp.out.name.version = <<1, 0, 1>>

(***************************************************************************)
(* C33: with the default fork, a mutation made through Bind::update in a   *)
(* call that State::spawn started is made to the plugin of the Item the    *)
(* Store holds: when the call has completed, find_plugin(path) and borrow  *)
(* see one mutation more than before, for the path that was called while   *)
(* it leads to the Item the call was made from.                            *)
(***************************************************************************)
C33_MutationInStore ==
    [][(/\ fcall.running /\ ~fcall'.running
        /\ plugins[fcall.path] = fcall.commit
        /\ ItemCell(puts, fcall.commit) = fcall.from)
       => Borrow(fcall.path)' = Borrow(fcall.path) + 1]_vars

\* a second call has mutated the plugin that find_plugin gives
C33_Witness ==
    /\ ~fcall.running
    /\ fcall.calls = 2
    /\ plugins[fcall.path] = fcall.commit
    /\ ItemCell(puts, fcall.commit) = fcall.from
    /\ Borrow(fcall.path) = 2

(***************************************************************************)
(* C39: a State::load of a plugin whose content is that of a registered    *)
(* plugin changes nothing in the Store: the address it returns is the      *)
(* registered one, addresses() is unchanged, and the Item at the commit    *)
(* keeps the state that calls have given its plugin since the first load.  *)
(***************************************************************************)
Reloaded == puts'[Len(puts')]

C39_ReloadKeepsItem ==
    [][(/\ LoadStep /\ Conflicts
        /\ items[Reloaded.commit] = [type |-> Reloaded.type, content |-> Reloaded.content])
       => /\ plugins'[AddressPath(Reloaded.type, Reloaded.commit)] = Reloaded.commit
          /\ Addresses' = Addresses
          /\ revs'[ItemCell(puts', Reloaded.commit)] = revs[ItemCell(puts, Reloaded.commit)]]_vars

(***************************************************************************)
(* C35: a handler that is registered in the State is found when the event  *)
(* starts, whether it was loaded before or after the event was made: the   *)
(* State in the Call of the event (the clone State::event made) finds the  *)
(* Item of every handler path that is registered.                          *)
(***************************************************************************)
C35_HandlerFoundAtStart ==
    \A path \in Paths :
        (cloned /\ HandlerPath(path)) => StoreItem("clone", plugins[path]) # NoItem

\* C40: when the event's token is already cancelled as start() is called,
\* the plugin's task never runs to an end, and when a work was made start()
\* resolves with PluginCallCancelled
C40_CancelledNeverRuns ==
    startCancelled =>
        /\ ptask \notin TaskOutcomes
        /\ (epc = "done" /\ ptask # "none") => result = "PluginCallCancelled"

\* C36: when start() of an event with a handler attached fails before the
\* handler is bound (the Item at the handler address is not of the handler
\* type: PluginMismatch), the plugin's work was not started
C36_NoWorkLeftBehind ==
    (attached /\ epc = "done" /\ hpc = "none" /\ result = "PluginMismatch")
        => ptask = "none"

\* C37: once a commit is recorded in the Journal the Handle it maps to never
\* changes, whatever threads log a Handle of that commit later or at the
\* same time
C37_RecordedHandleKept ==
    [][\A k \in JKeys : jrec[k] # NoHandle => jrec'[k] = jrec[k]]_vars

\* C38: a plugin loaded under the event name N is found by an EventConfig
\* whose event is N, whatever the letter case of N, and so is a handler
\* loaded under the handler name of the EventConfig
C38_LoadedNameFound ==
    (/\ cfgOp.res # "none"
     /\ cfgOp.event \in cfgLoaded.plugins
     /\ cfgOp.handler \in cfgLoaded.handlers \cup {NoHandlerName})
        => /\ cfgOp.res = "Ok"
           /\ cfgOp.found = cfgOp.event
           /\ cfgOp.foundHandler = cfgOp.handler

\* the events started are the first of the list, in the order of the list
InListOrder == \A j \in 1..Len(oper.started) : oper.started[j] = j

\* C34: the Operation starts its events in list order, each awaited before
\* the next; the first failure ends the sequence and is the result; when
\* the token is cancelled while the Operation runs no further event is
\* started and the result is PluginCallCancelled
C34_OperationSequence ==
    /\ InListOrder
    /\ Len(oper.started) <= oper.i
    /\ (oper.result # "none" /\ ~oper.cancelled) =>
          oper.result = (IF oper.child = "PluginCallError" THEN "PluginCallError" ELSE "Ok")
    /\ oper.during =>
          /\ oper.late = 0
          /\ oper.result \in {"none", "PluginCallCancelled"}

\* the runs of an Operation in which the token is not cancelled: list order,
\* one event at a time, the first failure or Ok as the result
OperationUncancelled ==
    ~oper.cancelled =>
        /\ InListOrder
        /\ Len(oper.started) \in {oper.i - 1, oper.i}
        /\ oper.result # "none" =>
              /\ oper.result = (IF oper.child = "PluginCallError" THEN "PluginCallError" ELSE "Ok")
              /\ oper.result = "Ok" => Len(oper.started) = oper.n

====
